---------------------------- MODULE Spec2Model ----------------------------
(***************************************************************************)
(* Verification model of the relicxs-workers job substrate: the namespaced *)
(* list-store queues, the machinist and archivist worker loops, the        *)
(* dead-letter lists, and the jobgroup subsystem.                          *)
(***************************************************************************)
EXTENDS Integers, Sequences, FiniteSets, TLC

VARIABLES
    queues,        \* list store: key -> sequence of raw elements, index 1 is the left end
    nextSeq,       \* number of elements produced so far + 1 (each element carries a unique token)
    apc,           \* archivist polling loop: which queue the current iteration reads next
    lastTake,      \* per worker: what the latest dequeue observed at the moment of the pop
    failedJobs,    \* tokens of dequeued jobs whose handling failed (the worker has moved on)
    garbageTaken,  \* [seq, worker] of non-JSON elements a worker has popped
    jobgroups,     \* table jobgroups: row id -> [tenant_id, status, openai_batch_id, output_file_id, created_at]
    batches,       \* the remote batch service: batch id -> [status, file]
    results,       \* table jobgroup_results, one element per stored row
    aiDesc,        \* table ai_description: asset ids that have a row
    lock,          \* TRUE iff the key lock:jobgroup-poller exists in the store
    ppc,           \* per process: position of its pollOnce call
    pl,            \* per process: locals of its pollOnce call
    faults,        \* store errors injected so far into jobgroup status updates
    spc,           \* per submitting process: position of its runJobgroupArchivist call
    sl,            \* per submitting process: locals of its runJobgroupArchivist call
    termByPoll,    \* jobgroup ids a poll cycle has written a terminal status to
    lateTouch,     \* jobgroup ids queried or written by a cycle begun after that
    runs,          \* per jobgroup id: result-processing runs that have ended (counted up to MaxRuns)
    reply,         \* the latest POST /enqueue exchange: server, body, HTTP answer, whether a list grew
    routed,        \* the latest call of the priority router: the job and what the call returned
    assetVersions, \* table asset_versions: its rows in insertion order
    dlqCall,       \* the latest call of sendToDLQ: job type, what failed inside it, how it ended
    lastArchive,   \* the latest call of archiveAssetToGlacier: what it found and what it did
    proc,          \* per worker process: where its loop is and the element in flight
    takes,         \* tokens of the jobs the step-by-step loops handed to a handler, in order
    interrupted,   \* tokens of jobs whose handler was cut short by the end of the process
    clock,         \* the time of day all processes read, in ticks of DayTicks to the day
    trip,          \* the latest push on a job queue and the pop that followed it
    retry,         \* the withRetry call in progress: its options, its counters, how it ended
    admin,         \* the latest exchange with a DLQ endpoint of the control plane: request, answer, lists before
    b2,            \* the blob-store concurrency pool of one process: limit, active, queue, tasks running
    lockKey,       \* the lock key's clock: ticks since its last SET or EXPIRE, and who SET it
    lastRun,       \* the archive bucket and the latest runMachinistPipeline call of the preservation job
    pipeRuns,      \* the runs of runMachinistPipeline so far: exit path, how each ended, its working directory
    sub,           \* the request processBatchArchivistJob has in hand, or the last one
    legacy,        \* the legacy shared lists jobs:instant, jobs:standard, jobs:jobgroup
    mig            \* the migration script: where it is, and what the legacy lists held at its start

qrest == <<nextSeq, apc, lastTake, failedJobs, garbageTaken>>

qvars == <<queues, nextSeq, apc, lastTake, failedJobs, garbageTaken>>

jvars == <<jobgroups, batches, results, aiDesc, lock, ppc, pl, spc, sl, faults, termByPoll, lateTouch, runs>>

svars == <<assetVersions, dlqCall, lastArchive>>

tvars == <<proc, takes, interrupted>>

xvars == <<clock, trip, retry, admin, b2, lockKey, lastRun>>

yvars == <<pipeRuns, sub, legacy, mig>>

evars == <<reply, routed, svars, tvars, xvars, yvars>>

vars == <<qvars, jvars, evars>>

(***************************************************************************)
(* Bounds                                                                  *)
(***************************************************************************)
MaxJobs == 3

\* Rows the asset_versions table holds at most.
MaxVersions == 3

(***************************************************************************)
(* Queue keys                                                              *)
(***************************************************************************)
MACHINIST_QUEUE_INSTANT == "jobs:machinist:instant"
MACHINIST_QUEUE_STANDARD == "jobs:machinist:standard"
MACHINIST_QUEUE_JOBGROUP == "jobs:machinist:batch"
ARCHIVIST_QUEUE_INSTANT == "jobs:archivist:instant"
ARCHIVIST_QUEUE_STANDARD == "jobs:archivist:standard"
ARCHIVIST_QUEUE_JOBGROUP == "jobs:archivist:jobgroup"
DLQ_QUEUE == "image-processing:failed"

LISTEN_QUEUES == <<MACHINIST_QUEUE_INSTANT, MACHINIST_QUEUE_STANDARD, MACHINIST_QUEUE_JOBGROUP>>

ArchivistQueues == <<ARCHIVIST_QUEUE_INSTANT, ARCHIVIST_QUEUE_STANDARD, ARCHIVIST_QUEUE_JOBGROUP>>

JobQueueKeys == {LISTEN_QUEUES[i] : i \in 1..3} \cup {ArchivistQueues[i] : i \in 1..3}

DlqKeys == {"dlq:machinist", "dlq:archivist", "dlq:archivist.jobgroup-result", "dlq:unknown", DLQ_QUEUE}

QueueKeys == JobQueueKeys \cup DlqKeys


(***************************************************************************)
(* Jobs and their wire form                                                *)
(*                                                                         *)
(* A job is a record of the fields the router, the validators and the      *)
(* handlers read.  Identifier fields take the abstract values "uuid" (a    *)
(* well-formed UUIDv4), "bad" (a non-empty string that is no UUIDv4) and   *)
(* "none" (absent).  "none" also stands for an absent enumerated field.    *)
(***************************************************************************)
Job(jt, pt, tenant, asset, batch, purpose) ==
    [job_type |-> jt, processing_type |-> pt, tenant_id |-> tenant,
     asset_id |-> asset, batch_id |-> batch, file_purpose |-> purpose]

NoJob == Job("none", "none", "none", "none", "none", "none")

\* Jobs the producers submit: one per lane, plus jobs that fail validation.
JobInputs ==
    { Job("machinist", "instant",  "uuid", "uuid", "uuid", "viewing"),
      Job("machinist", "standard", "uuid", "uuid", "uuid", "viewing"),
      Job("machinist", "instant",  "uuid", "uuid", "uuid", "bogus"),
      Job("archivist", "instant",  "uuid", "uuid", "uuid", "none"),
      Job("archivist", "standard", "uuid", "uuid", "uuid", "none"),
      Job("archivist", "jobgroup", "uuid", "uuid", "uuid", "none"),
      Job("archivist", "instant",  "uuid", "bad",  "uuid", "none") }

\* JSON.stringify(job): a JSON document carrying the job.
Stringify(job) == [json |-> TRUE, job |-> job]

\* A list element that is not valid JSON.
Garbage == [json |-> FALSE, job |-> NoJob]

\* JSON.parse(element) succeeds exactly on JSON documents.
ParseOk(el) == el.json

ParseJob(el) == el.job

\* The element as stored: the document plus a unique token that tells
\* elements (and their enqueue order) apart.
Element(seq, doc) == [seq |-> seq, json |-> doc.json, job |-> doc.job]

(***************************************************************************)
(* List-store primitives (Redis lists)                                     *)
(***************************************************************************)
LPush(q, key, el) == [q EXCEPT ![key] = <<el>> \o @]

RPush(q, key, el) == [q EXCEPT ![key] = Append(@, el)]

LPopped(q, key) == [q EXCEPT ![key] = Tail(@)]

RPopped(q, key) == [q EXCEPT ![key] = SubSeq(@, 1, Len(@) - 1)]

LHead(q, key) == q[key][1]

RHead(q, key) == q[key][Len(q[key])]

(***************************************************************************)
(* Priority router                                                         *)
(***************************************************************************)
\* validateJobHasBaseFields: tenant_id present and a discriminator present.
ValidateJobHasBaseFields(job) ==
    /\ job.tenant_id # "none"
    /\ (job.job_type # "none" \/ job.processing_type # "none")

\* getJobPriority: instant|individual -> instant, standard -> standard,
\* jobgroup -> batch, anything else -> standard.
GetJobPriority(job) ==
    IF job.processing_type \in {"instant", "individual"} THEN "instant"
    ELSE IF job.processing_type = "standard" THEN "standard"
    ELSE IF job.processing_type = "jobgroup" THEN "batch"
    ELSE "standard"

\* resolveQueueForJob: "error" stands for the thrown Error.
ResolveQueueForJob(job) ==
    IF ~ValidateJobHasBaseFields(job) THEN "error"
    ELSE IF job.job_type = "machinist" THEN
        (IF GetJobPriority(job) = "instant" THEN MACHINIST_QUEUE_INSTANT
         ELSE IF GetJobPriority(job) = "standard" THEN MACHINIST_QUEUE_STANDARD
         ELSE MACHINIST_QUEUE_JOBGROUP)
    ELSE IF job.job_type = "archivist" THEN
        (IF GetJobPriority(job) = "instant" THEN ARCHIVIST_QUEUE_INSTANT
         ELSE IF GetJobPriority(job) = "standard" THEN ARCHIVIST_QUEUE_STANDARD
         ELSE ARCHIVIST_QUEUE_JOBGROUP)
    ELSE "error"

(***************************************************************************)
(* Job validation                                                          *)
(***************************************************************************)
\* schema validateArchivistJob: UUIDv4 tenant_id and asset_id, batch_id a
\* UUIDv4 when present, processing_type in the enumerated set.
ValidateArchivistJob(job) ==
    /\ job.tenant_id = "uuid"
    /\ job.asset_id = "uuid"
    /\ job.batch_id \in {"none", "uuid"}
    /\ job.processing_type \in {"instant", "standard", "jobgroup", "batch"}

\* machinist.utils validateMachinistJob: the schema check's result is
\* discarded; presence of the identifiers and an allowed file_purpose decide.
ValidateMachinistJob(job) ==
    /\ job.tenant_id # "none"
    /\ job.asset_id # "none"
    /\ job.batch_id # "none"
    /\ job.file_purpose \in {"preservation", "viewing", "production", "restoration"}

(***************************************************************************)
(* Dead-letter helper                                                      *)
(***************************************************************************)
\* sendToDLQ: the list key is dlq:<job_type>, "unknown" when the job has no
\* job_type; the entry carries identifiers only.
DlqJobType(job) == IF job.job_type = "none" THEN "unknown" ELSE job.job_type

DlqKeyFor(job) == "dlq:" \o DlqJobType(job)

DlqEntry(seq, job) ==
    Element(seq, Stringify(Job(DlqJobType(job), "none", job.tenant_id,
                               job.asset_id, job.batch_id, "none")))

SendToDLQ(q, seq, job) == RPush(q, DlqKeyFor(job), DlqEntry(seq, job))

\* The object processBatchArchivistJob hands to sendToDLQ: the job group
\* wrapper {jobs, workDir, type, priority}, which has no job_type and no
\* identifiers of its own.
JobGroupWrapper == NoJob

(***************************************************************************)
(* Producers                                                               *)
(***************************************************************************)
\* POST /enqueue: default job_type, batch -> jobgroup shim, machinist +
\* jobgroup rejected, queue resolved by the router, left-push.
EnqueueNormalize(job) ==
    LET j1 == IF job.job_type = "none" THEN [job EXCEPT !.job_type = "machinist"] ELSE job
    IN  IF j1.processing_type = "batch" THEN [j1 EXCEPT !.processing_type = "jobgroup"] ELSE j1

EnqueueAccepts(job) ==
    /\ ~(EnqueueNormalize(job).job_type = "machinist"
         /\ EnqueueNormalize(job).processing_type = "jobgroup")
    /\ ResolveQueueForJob(EnqueueNormalize(job)) # "error"

PostEnqueue(job) ==
    /\ nextSeq <= MaxJobs
    /\ EnqueueAccepts(job)
    /\ queues' = LPush(queues, ResolveQueueForJob(EnqueueNormalize(job)),
                       Element(nextSeq, Stringify(EnqueueNormalize(job))))
    /\ nextSeq' = nextSeq + 1
    /\ UNCHANGED <<apc, lastTake, failedJobs, garbageTaken, jvars, evars>>

\* queues/<worker>/<priority>.queue.js validateJob.
HelperValidateJob(key, job) ==
    /\ job.tenant_id # "none"
    /\ IF key \in {LISTEN_QUEUES[i] : i \in 1..3}
       THEN job.job_type # "none" \/ job.file_purpose # "none"
       ELSE job.job_type # "none" \/ job.processing_type # "none"

\* pushJob without its rPush.
PushJobDropped(q, key, seq, job) == q

\* pushJob: stringify, right-push.
PushJob(q, key, seq, job) == RPush(q, key, Element(seq, Stringify(job)))

\* queues/<worker>/<priority>.queue.js enqueue, called with a job of its lane.
HelperEnqueue(key, job) ==
    /\ nextSeq <= MaxJobs
    /\ ResolveQueueForJob(job) = key
    /\ HelperValidateJob(key, job)
    /\ queues' = PushJob(queues, key, nextSeq, job)
    /\ nextSeq' = nextSeq + 1
    /\ UNCHANGED <<apc, lastTake, failedJobs, garbageTaken, jvars, evars>>

\* Another client of the shared list store leaves an element that is not
\* valid JSON on a job queue.
ForeignPush(key) ==
    /\ nextSeq <= MaxJobs
    /\ queues' = RPush(queues, key, Element(nextSeq, Garbage))
    /\ nextSeq' = nextSeq + 1
    /\ UNCHANGED <<apc, lastTake, failedJobs, garbageTaken, jvars, evars>>

(***************************************************************************)
(* The control plane's POST /enqueue                                       *)
(*                                                                         *)
(* Two HTTP servers define the route: src/endpoints/server.js and          *)
(* src/health/server.js.  A request body is a job that also carries the    *)
(* input_extension field.                                                  *)
(***************************************************************************)
Servers == {"endpoints", "health"}

Body(job, ext) == job @@ [input_extension |-> ext]

\* sanitize.js: the extension allow-list.
EXT_WHITELIST == {"jpg", "jpeg", "png", "tiff", "tif"}

\* String(ext || '').replace(/^\./, '').toLowerCase() on the extensions used here.
CleanExt(ext) ==
    IF ext = "none" THEN ""
    ELSE IF ext = ".JPG" THEN "jpg"
    ELSE ext

\* sanitizeExt: the cleaned extension, "" when it is not allow-listed.
SanitizeExt(ext) == IF CleanExt(ext) \in EXT_WHITELIST THEN CleanExt(ext) ELSE ""

\* schema validateMachinistJob: UUIDv4 tenant_id and asset_id, batch_id a
\* UUIDv4 when present, file_purpose in the enumerated set, input_extension
\* a non-empty string.
SchemaValidateMachinistJob(job) ==
    /\ job.tenant_id = "uuid"
    /\ job.asset_id = "uuid"
    /\ job.batch_id \in {"none", "uuid"}
    /\ job.file_purpose \in {"preservation", "viewing", "production", "restoration"}
    /\ job.input_extension # "none"

\* if (!job.job_type && !job.type) job.job_type = 'machinist'
DefaultJobType(job) ==
    IF job.job_type = "none" THEN [job EXCEPT !.job_type = "machinist"] ELSE job

\* The answer of a handler: status code, error label, the queue the router
\* returned ("none" when the router was not reached or threw).
Answer(code, error, queue) == [code |-> code, error |-> error, queue |-> queue]

\* src/endpoints/server.js POST /enqueue, after authentication.
EndpointsAnswer(body, pushOk) ==
    LET job == EnqueueNormalize(body)
    IN  IF job.job_type = "machinist" /\ job.processing_type = "jobgroup"
        THEN Answer(400, "unsupported_priority", "none")
        ELSE IF ResolveQueueForJob(job) = "error"
        THEN Answer(400, "invalid_job", "none")
        ELSE IF ~pushOk
        THEN Answer(500, "enqueue_failed", ResolveQueueForJob(job))
        ELSE Answer(202, "none", ResolveQueueForJob(job))

\* src/health/server.js POST /enqueue, after authentication: the job_type
\* default, then the router, then the push.
HealthAnswer(body, pushOk) ==
    LET job == DefaultJobType(body)
    IN  IF ResolveQueueForJob(job) = "error"
        THEN Answer(400, "invalid_job", "none")
        ELSE IF ~pushOk
        THEN Answer(500, "enqueue_failed", ResolveQueueForJob(job))
        ELSE Answer(202, "none", ResolveQueueForJob(job))

Exchange(server, body, answer, wrote) ==
    [server |-> server, body |-> body, code |-> answer.code,
     error |-> answer.error, queue |-> answer.queue, wrote |-> wrote]

NoReply == Exchange("none", Body(NoJob, "none"), Answer(0, "none", "none"), FALSE)

\* One request to src/endpoints/server.js; pushOk tells whether the list
\* store accepts the push.
EndpointsEnqueue(body, pushOk) ==
    /\ nextSeq <= MaxJobs
    /\ IF EndpointsAnswer(body, pushOk).code = 202
       THEN /\ queues' = LPush(queues, EndpointsAnswer(body, pushOk).queue,
                               Element(nextSeq, Stringify(EnqueueNormalize(body))))
            /\ nextSeq' = nextSeq + 1
       ELSE UNCHANGED <<queues, nextSeq>>
    /\ reply' = Exchange("endpoints", body, EndpointsAnswer(body, pushOk), queues' # queues)
    /\ UNCHANGED <<apc, lastTake, failedJobs, garbageTaken, routed, svars, tvars, xvars, jvars, yvars>>

\* One request to src/health/server.js.
HealthEnqueue(body, pushOk) ==
    /\ nextSeq <= MaxJobs
    /\ IF HealthAnswer(body, pushOk).code = 202
       THEN /\ queues' = LPush(queues, HealthAnswer(body, pushOk).queue,
                               Element(nextSeq, Stringify(DefaultJobType(body))))
            /\ nextSeq' = nextSeq + 1
       ELSE UNCHANGED <<queues, nextSeq>>
    /\ reply' = Exchange("health", body, HealthAnswer(body, pushOk), queues' # queues)
    /\ UNCHANGED <<apc, lastTake, failedJobs, garbageTaken, routed, svars, tvars, xvars, jvars, yvars>>

(***************************************************************************)
(* A call of the priority router                                           *)
(***************************************************************************)
Routing(job, key) == [job |-> job, key |-> key]

NoRoute == Routing(NoJob, "none")

\* resolveQueueForJob(job), by any caller; "error" records the thrown Error.
Route(job) ==
    /\ routed' = Routing(job, ResolveQueueForJob(job))
    /\ UNCHANGED <<qvars, reply, svars, tvars, xvars, jvars, yvars>>

(***************************************************************************)
(* Asset versions, object storage and the dead-letter helper as a call     *)
(*                                                                         *)
(* asset_versions is kept as the sequence of its rows in insertion order.  *)
(* The stores answer each statement or fail it; which one is an input of   *)
(* the step.  Object storage keeps no state of its own here: an upload     *)
(* succeeds or fails.  DRY_RUN and MINIMAL_MODE are off.                   *)
(***************************************************************************)
\* The machinist job whose runs are followed.
MachinistJob == Job("machinist", "standard", "uuid", "uuid", "uuid", "viewing")

\* The argument sets of uploadAndRecord: purpose, variant, versionType.
Version(purpose, variant, type) == [purpose |-> purpose, variant |-> variant, type |-> type]

\* uploadAndRecordPreservation
PreservationVersion(job) == Version(job.file_purpose, "original", "preservation")

\* uploadAndRecordViewing
ViewingVersion == Version("viewing", "processed", "viewing")

VersionCalls == {PreservationVersion(MachinistJob), ViewingVersion}

\* The version the archive step records.
ArchiveVersion == Version("preservation", "original", "preservation")

VersionRow(assetId, v, status) ==
    [asset_id |-> assetId, purpose |-> v.purpose, variant |-> v.variant,
     type |-> v.type, status |-> status, failed_reason |-> FALSE]

\* select id ... eq asset_id, purpose, variant, type: indexes of the rows.
SelectVersion(rows, assetId, v) ==
    {i \in DOMAIN rows : /\ rows[i].asset_id = assetId
                         /\ rows[i].purpose = v.purpose
                         /\ rows[i].variant = v.variant
                         /\ rows[i].type = v.type}

Least(S) == CHOOSE i \in S : \A j \in S : i <= j

\* .limit(1).maybeSingle() as uploadAndRecord reads it: the id of a row, or
\* 0 when there is none or when the query failed (its error is not read).
ExistingVersion(rows, assetId, v, selectOk) ==
    IF selectOk /\ SelectVersion(rows, assetId, v) # {}
    THEN Least(SelectVersion(rows, assetId, v))
    ELSE 0

\* update({status, ...}).eq('id', id)
UpdateVersion(rows, id, status) == [rows EXCEPT ![id].status = status]

\* rpc create_asset_version: the relational store's insertion routine.
CreateAssetVersion(rows, assetId, v, status) == Append(rows, VersionRow(assetId, v, status))

\* update({failed_reason}).eq('asset_id', assetId)
UpdateFailedReason(rows, assetId) ==
    [i \in DOMAIN rows |->
        IF rows[i].asset_id = assetId THEN [rows[i] EXCEPT !.failed_reason = TRUE] ELSE rows[i]]

\* The record step of uploadAndRecord after the upload ended: look the
\* tuple up, update the row found, otherwise create one.
RecordVersion(rows, assetId, v, status, selectOk, writeOk) ==
    IF ~writeOk THEN rows
    ELSE IF ExistingVersion(rows, assetId, v, selectOk) # 0
    THEN UpdateVersion(rows, ExistingVersion(rows, assetId, v, selectOk), status)
    ELSE CreateAssetVersion(rows, assetId, v, status)

\* One call of uploadAndRecord for the job and one of its versions.
UploadAndRecord(v, uploadOk, selectOk, writeOk) ==
    /\ (~selectOk \/ SelectVersion(assetVersions, MachinistJob.asset_id, v) = {})
          => Len(assetVersions) < MaxVersions
    /\ assetVersions' = RecordVersion(assetVersions, MachinistJob.asset_id, v,
                                      IF uploadOk THEN "success" ELSE "failed",
                                      selectOk, writeOk)
    /\ UNCHANGED <<qvars, jvars, reply, routed, dlqCall, lastArchive, tvars, xvars, yvars>>

\* The parts of sendToDLQ that can fail.
DlqFaults == {"none", "connect", "push", "update", "webhook"}

\* sendToDLQ's push: nothing is pushed when the push itself fails.
DlqPush(q, seq, job, fault) == IF fault = "push" THEN q ELSE SendToDLQ(q, seq, job)

\* sendToDLQ's best-effort failed_reason update.
DlqUpdate(rows, job, fault) ==
    IF job.asset_id # "none" /\ fault # "update"
    THEN UpdateFailedReason(rows, job.asset_id)
    ELSE rows

\* How a call of sendToDLQ ends: getRedisClient is awaited outside every
\* try block, so a connection failure rejects the call.
DlqOutcome(fault) == IF fault = "connect" THEN "rejected" ELSE "returned"

DlqCall(job, fault) == [job_type |-> job.job_type, fault |-> fault, outcome |-> DlqOutcome(fault)]

NoDlqCall == [job_type |-> "none", fault |-> "none", outcome |-> "none"]

\* Jobs the callers hand to sendToDLQ: a machinist job, an archivist job,
\* the poller's result job and the job group wrapper.
DlqJobs ==
    { MachinistJob,
      Job("archivist", "instant", "uuid", "uuid", "uuid", "none"),
      Job("archivist.jobgroup-result", "none", "uuid", "uuid", "none", "none"),
      JobGroupWrapper }

\* One call of sendToDLQ(job, reason).
SendToDLQCall(job, fault) ==
    /\ nextSeq <= MaxJobs
    /\ dlqCall' = DlqCall(job, fault)
    /\ IF fault = "connect"
       THEN UNCHANGED <<queues, nextSeq, assetVersions>>
       ELSE /\ queues' = DlqPush(queues, nextSeq, job, fault)
            /\ nextSeq' = IF fault = "push" THEN nextSeq ELSE nextSeq + 1
            /\ assetVersions' = DlqUpdate(assetVersions, job, fault)
    /\ UNCHANGED <<apc, lastTake, failedJobs, garbageTaken, jvars, reply, routed, lastArchive, tvars, xvars, yvars>>

\* A lookup that never finds the recorded archive.
HasPreservationVersionNever(rows, assetId) == FALSE

\* hasPreservationVersion: a row of the asset with purpose preservation and
\* variant original exists.
HasPreservationVersion(rows, assetId) ==
    \E i \in DOMAIN rows : /\ rows[i].asset_id = assetId
                           /\ rows[i].purpose = "preservation"
                           /\ rows[i].variant = "original"

\* What a call of archiveAssetToGlacier did: whether the asset's archive
\* row was in the table when the call began, whether the store answered the
\* lookup, whether an object was uploaded, whether a statement that writes
\* to the relational store was issued, and how the call ended.
ArchiveRun(recorded, lookupOk, uploadedObject, wrote, result) ==
    [recorded |-> recorded, lookupOk |-> lookupOk, uploaded |-> uploadedObject,
     wrote |-> wrote, result |-> result]

NoArchive == ArchiveRun(FALSE, TRUE, FALSE, FALSE, "none")

ArchiveRecorded(rows, assetId) == SelectVersion(rows, assetId, ArchiveVersion) # {}

\* One call of archiveAssetToGlacier(logger, job, workDir).  A failure of
\* any step is caught: the job is sent to the dead-letter helper, whose own
\* failure is swallowed, and the error is rethrown.
ArchiveAssetToGlacier(lookupOk, uploadOk, rpcOk, fault) ==
    LET job == MachinistJob
        recorded == ArchiveRecorded(assetVersions, job.asset_id)
        skip == lookupOk /\ HasPreservationVersion(assetVersions, job.asset_id)
        failed == ~lookupOk \/ ~uploadOk \/ ~rpcOk
        didUpload == lookupOk /\ ~skip /\ uploadOk
        dlqWrites == fault \notin {"connect", "update"}
    IN  /\ nextSeq <= MaxJobs
        /\ (~skip /\ ~failed) => Len(assetVersions) < MaxVersions
        /\ IF skip
           THEN /\ lastArchive' = ArchiveRun(recorded, lookupOk, FALSE, FALSE, "skipped")
                /\ UNCHANGED <<queues, nextSeq, assetVersions, dlqCall>>
           ELSE IF ~failed
           THEN /\ assetVersions' = CreateAssetVersion(assetVersions, job.asset_id, ArchiveVersion, "success")
                /\ lastArchive' = ArchiveRun(recorded, lookupOk, TRUE, TRUE, "complete")
                /\ UNCHANGED <<queues, nextSeq, dlqCall>>
           ELSE /\ dlqCall' = DlqCall(job, fault)
                /\ IF fault = "connect"
                   THEN UNCHANGED <<queues, nextSeq, assetVersions>>
                   ELSE /\ queues' = DlqPush(queues, nextSeq, job, fault)
                        /\ nextSeq' = IF fault = "push" THEN nextSeq ELSE nextSeq + 1
                        /\ assetVersions' = DlqUpdate(assetVersions, job, fault)
                /\ lastArchive' = ArchiveRun(recorded, lookupOk, didUpload, dlqWrites, "threw")
        /\ UNCHANGED <<apc, lastTake, failedJobs, garbageTaken, jvars, reply, routed, tvars, xvars, yvars>>

(***************************************************************************)
(* What a dequeue observes at the moment of the pop                        *)
(***************************************************************************)
HigherEmpty(q, order, i) == \A k \in 1..(i - 1) : Len(q[order[k]]) = 0

\* No job enqueued before el is still waiting on the queue el came from.
NoOlderLeft(rest, el) == \A n \in 1..Len(rest) : rest[n].json => rest[n].seq > el.seq

Observation(q, order, i, rest, el) ==
    [key |-> order[i], higherEmpty |-> HigherEmpty(q, order, i),
     oldest |-> NoOlderLeft(rest, el)]

NoObservation == [key |-> "none", higherEmpty |-> TRUE, oldest |-> TRUE]

(***************************************************************************)
(* Machinist worker: blocking loop                                         *)
(***************************************************************************)
\* BRPOP over LISTEN_QUEUES serves the first non-empty key in argument order.
BrPopIndex(q) ==
    CHOOSE i \in 1..3 : Len(q[LISTEN_QUEUES[i]]) > 0 /\ HigherEmpty(q, LISTEN_QUEUES, i)

\* Outcome of the handler the loop dispatches to for `key`:
\* threw = the handler raised, dlq = it called sendToDLQ before raising.
\*  - processInstantMachinistJob validates before its try block;
\*  - processStandardMachinistJob validates inside its try block;
\*  - processBatchMachinistJob validates before its try block and then only logs.
MachinistHandle(key, job, pipelineOk) ==
    IF key = MACHINIST_QUEUE_INSTANT THEN
        (IF ~ValidateMachinistJob(job) THEN [threw |-> TRUE, dlq |-> FALSE]
         ELSE IF pipelineOk THEN [threw |-> FALSE, dlq |-> FALSE]
         ELSE [threw |-> TRUE, dlq |-> TRUE])
    ELSE IF key = MACHINIST_QUEUE_STANDARD THEN
        (IF ValidateMachinistJob(job) /\ pipelineOk THEN [threw |-> FALSE, dlq |-> FALSE]
         ELSE [threw |-> TRUE, dlq |-> TRUE])
    ELSE
        (IF ~ValidateMachinistJob(job) THEN [threw |-> TRUE, dlq |-> FALSE]
         ELSE [threw |-> FALSE, dlq |-> FALSE])

\* One iteration of startMachinistWorker's loop that obtains an element:
\* BRPOP, parse (raw element to DLQ_QUEUE on failure), dispatch, and on a
\* handler error push the raw element to DLQ_QUEUE.
MachinistIteration(pipelineOk) ==
    /\ \E i \in 1..3 : Len(queues[LISTEN_QUEUES[i]]) > 0
    /\ LET i   == BrPopIndex(queues)
           key == LISTEN_QUEUES[i]
           el  == RHead(queues, key)
           q1  == RPopped(queues, key)
       IN  IF ~ParseOk(el)
           THEN /\ queues' = RPush(q1, DLQ_QUEUE, el)
                /\ garbageTaken' = garbageTaken \cup {[seq |-> el.seq, worker |-> "machinist"]}
                /\ UNCHANGED <<lastTake, failedJobs>>
           ELSE LET r  == MachinistHandle(key, ParseJob(el), pipelineOk)
                    q2 == IF r.dlq THEN SendToDLQ(q1, el.seq, ParseJob(el)) ELSE q1
                IN  /\ queues' = IF r.threw THEN RPush(q2, DLQ_QUEUE, el) ELSE q2
                    /\ failedJobs' = IF r.threw THEN failedJobs \cup {el.seq} ELSE failedJobs
                    /\ lastTake' = [lastTake EXCEPT !["machinist"] =
                                       Observation(queues, LISTEN_QUEUES, i, q1[key], el)]
                    /\ UNCHANGED garbageTaken
    /\ UNCHANGED <<nextSeq, apc, jvars, evars>>

(***************************************************************************)
(* Archivist worker: polling loop                                          *)
(***************************************************************************)
\* Outcome of the handler for stage i of the loop (1 instant, 2 standard,
\* 3 jobgroup): threw, dlq as above, dlqJob = the object given to sendToDLQ.
\*  - processInstantArchivistJob and processStandardArchivistJob validate
\*    before their try block;
\*  - processBatchArchivistJob validates inside the retried submission and
\*    hands the job group wrapper to sendToDLQ.
ArchivistHandle(i, job, pipelineOk) ==
    IF i \in {1, 2} THEN
        (IF ~ValidateArchivistJob(job) THEN [threw |-> TRUE, dlq |-> FALSE, dlqJob |-> job]
         ELSE IF pipelineOk THEN [threw |-> FALSE, dlq |-> FALSE, dlqJob |-> job]
         ELSE [threw |-> TRUE, dlq |-> TRUE, dlqJob |-> job])
    ELSE
        (IF ValidateArchivistJob(job) /\ pipelineOk
         THEN [threw |-> FALSE, dlq |-> FALSE, dlqJob |-> JobGroupWrapper]
         ELSE [threw |-> TRUE, dlq |-> TRUE, dlqJob |-> JobGroupWrapper])

StageIndex(pc) == IF pc = "instant" THEN 1 ELSE IF pc = "standard" THEN 2 ELSE 3

NextStage(pc) == IF pc = "instant" THEN "standard" ELSE IF pc = "standard" THEN "batch" ELSE "instant"

\* One stage of an iteration of startArchivistPollingLoop: dequeue (popJob:
\* left-pop, parse, null on a parse error) from the stage's queue and, when a
\* job came back, run its handler; the loop swallows the handler's error.
ArchivistStage(pipelineOk) ==
    /\ LET i   == StageIndex(apc)
           key == ArchivistQueues[i]
       IN  IF Len(queues[key]) = 0
           THEN UNCHANGED <<queues, lastTake, failedJobs, garbageTaken>>
           ELSE LET el == LHead(queues, key)
                    q1 == LPopped(queues, key)
                IN  IF ~ParseOk(el)
                    THEN /\ queues' = q1
                         /\ garbageTaken' = garbageTaken \cup {[seq |-> el.seq, worker |-> "archivist"]}
                         /\ UNCHANGED <<lastTake, failedJobs>>
                    ELSE LET r == ArchivistHandle(i, ParseJob(el), pipelineOk)
                         IN  /\ queues' = IF r.dlq THEN SendToDLQ(q1, el.seq, r.dlqJob) ELSE q1
                             /\ failedJobs' = IF r.threw THEN failedJobs \cup {el.seq} ELSE failedJobs
                             /\ lastTake' = [lastTake EXCEPT !["archivist"] =
                                                Observation(queues, ArchivistQueues, i, q1[key], el)]
                             /\ UNCHANGED garbageTaken
    /\ apc' = NextStage(apc)
    /\ UNCHANGED <<nextSeq, jvars, evars>>

(***************************************************************************)
(* Jobgroup subsystem: tables, the remote batch service, the poller lock   *)
(***************************************************************************)
MaxJobgroups == 2

MaxLines == 2

MaxFaults == 1

MaxRuns == 2

\* The clock stops at MaxClock ticks.
MaxClock == 3

\* Jobgroup rows a behaviour of the throttle specification creates at most.
MaxRecent == 6

\* The largest maxRetries a withRetry call is given.
MaxRetriesArg == 3

\* Entries dlq:machinist is let grow to when it is listed.
MaxDlqLen == 201

\* Tasks handed to withB2Limit in one behaviour.
MaxTasks == 7

\* POLLER_LOCK_TTL_SEC in ticks of the store's clock.
LockTtlTicks == 3

\* Runs of runMachinistPipeline in one behaviour.
MaxPipelineRuns == 3

\* Jobs in one job group.
MaxGroupJobs == 2

\* Processes that call pollOnce: the periodic timer of the archivist worker,
\* and the two places that call runJobgroupArchivist (the archivist worker's
\* batch handler and the operator CLI), which poll inline after creating.
Pollers == {"timer", "worker", "cli"}

Submitters == {"worker", "cli"}

Tenants == {"t1"}

\* Assets that have a row in the assets table; getAssetById throws for others.
Assets == {"a1"}

ActiveStatuses == {"created", "in_progress", "validating"}

ThrottleStatuses == {"queued", "in_progress", "validating", "created"}

TerminalStatuses == {"completed", "failed", "expired", "cancelled"}

RemoteFinal == {"completed", "failed", "expired", "cancelled"}

\* `asset-${asset_id}` as the input builder writes it; a custom_id is kept as
\* its prefix and the remainder so that the parse below is a real inverse.
CustomId(assetId) == [prefix |-> "asset-", rest |-> assetId]

MalformedId == [prefix |-> "other", rest |-> "a1"]

\* customId.startsWith('asset-') ? customId.slice(6) : null, then !assetId
AssetIdOf(cid) == IF cid.prefix = "asset-" /\ cid.rest # "" THEN cid.rest ELSE "null"

OutputIds == {CustomId("a1"), CustomId("a2"), MalformedId}

RECURSIVE SeqsUpTo(_, _)
SeqsUpTo(S, n) ==
    IF n = 0 THEN {<<>>}
    ELSE LET shorter == SeqsUpTo(S, n - 1)
         IN  shorter \cup {Append(s, x) : s \in {t \in shorter : Len(t) = n - 1}, x \in S}

\* Output files a completed batch can carry: the parsed lines' custom_ids.
OutputFiles(maxLen) == SeqsUpTo(OutputIds, maxLen) \ {<<>>}

JobgroupRow(tenant, status, batchId, createdAt) ==
    [tenant_id |-> tenant, status |-> status, openai_batch_id |-> batchId, output_file_id |-> FALSE,
     created_at |-> createdAt]

\* createJobgroup: insert one row; the id is the row's position.
CreateJobgroup(rows, tenant, status, batchId, createdAt) ==
    Append(rows, JobgroupRow(tenant, status, batchId, createdAt))

\* updateJobgroupStatus: update ... where id = jobgroupId, whatever the row holds.
UpdateJobgroupStatus(rows, id, status) == [rows EXCEPT ![id].status = status]

SetOutputFileId(rows, id) == [rows EXCEPT ![id].output_file_id = TRUE]

RECURSIVE IdsWhere(_, _, _)
IdsWhere(rows, statuses, n) ==
    IF n = 0 THEN <<>>
    ELSE LET before == IdsWhere(rows, statuses, n - 1)
         IN  IF rows[n].status \in statuses THEN Append(before, n) ELSE before

\* getActiveJobgroups: rows whose status is created, in_progress or validating.
GetActiveJobgroups(rows) == IdsWhere(rows, ActiveStatuses, Len(rows))

\* getRecentJobgroupsForTenant, then the filter on the active statuses.
ActiveForTenant(rows, tenant) ==
    {g \in 1..Len(rows) : rows[g].tenant_id = tenant /\ rows[g].status \in ThrottleStatuses}

\* 24 * 60 * 60 * 1000 ms, in ticks of the clock.
DayTicks == 2

\* 'max 5 jobgroups in 24h'
RATE_LIMIT == 5

\* getRecentJobgroupsForTenant, then the filter Date.now() - created_at < 24 h.
Last24ForTenant(rows, tenant, now) ==
    {g \in 1..Len(rows) : rows[g].tenant_id = tenant /\ now - rows[g].created_at < DayTicks}

ResultRow(g, assetId, cid, status) ==
    [jobgroup_id |-> g, asset_id |-> assetId, custom_id |-> cid, status |-> status]

SameKey(r1, r2) == r1.jobgroup_id = r2.jobgroup_id /\ r1.asset_id = r2.asset_id

\* upsertJobgroupResult: insert, or on conflict (jobgroup_id, asset_id) update.
UpsertJobgroupResultInsertOnly(rows, row) == Append(rows, row)

UpsertJobgroupResult(rows, row) ==
    IF \E i \in 1..Len(rows) : SameKey(rows[i], row)
    THEN [i \in 1..Len(rows) |-> IF SameKey(rows[i], row) THEN row ELSE rows[i]]
    ELSE Append(rows, row)

\* hasJobgroupResult
HasJobgroupResult(rows, g, assetId) ==
    \E i \in 1..Len(rows) : rows[i].jobgroup_id = g /\ rows[i].asset_id = assetId

\* getJobgroupResultsCount
GetJobgroupResultsCount(rows, g) == Cardinality({i \in 1..Len(rows) : rows[i].jobgroup_id = g})

\* getAssetById succeeds iff the asset row exists.
GetAssetById(assetId) == assetId \in Assets

RemoteBatch(status, file) == [status |-> status, file |-> file]

\* pollOnce locals: the snapshot of active rows still to visit, the remote
\* status just retrieved, the output file, and each line's progress.
NoLocals == [todo |-> <<>>, seen |-> "none", file |-> <<>>, objs |-> <<>>, began |-> {}]

NoSubmit == [tenant |-> "none"]

JobgroupInit ==
    /\ jobgroups = <<>>
    /\ batches = <<>>
    /\ results = <<>>
    /\ aiDesc = {}
    /\ lock = FALSE
    /\ ppc = [p \in Pollers |-> "idle"]
    /\ pl = [p \in Pollers |-> NoLocals]
    /\ spc = [s \in Submitters |-> "idle"]
    /\ sl = [s \in Submitters |-> NoSubmit]
    /\ faults = 0
    /\ termByPoll = {}
    /\ lateTouch = {}
    /\ runs = [g \in 1..MaxJobgroups |-> 0]

(***************************************************************************)
(* pollOnce, one action per await                                          *)
(***************************************************************************)
InWorkSection(p) == ppc[p] \in {"retrieve", "write", "count", "chunk"}

Cur(p) == Head(pl[p].todo)

\* A submitter's inline pollOnce has returned: runJobgroupArchivist returns.
SubmitReturns(p) == IF p \in Submitters THEN [spc EXCEPT ![p] = "idle"] ELSE spc

\* Leave the loop body for the next snapshot row, or for the finally block.
Advance(p) ==
    /\ pl' = [pl EXCEPT ![p].todo = Tail(@), ![p].seen = "none", ![p].file = <<>>, ![p].objs = <<>>]
    /\ ppc' = [ppc EXCEPT ![p] = IF Len(pl[p].todo) > 1 THEN "retrieve" ELSE "release"]

\* An await that threw: control goes to the finally block of pollOnce.
Throw(p) ==
    /\ pl' = [pl EXCEPT ![p].todo = <<>>, ![p].seen = "none", ![p].file = <<>>, ![p].objs = <<>>]
    /\ ppc' = [ppc EXCEPT ![p] = "release"]

\* processCompletedJobgroup has returned or thrown after its chunks.
RunEnded(g) == [runs EXCEPT ![g] = IF @ < MaxRuns THEN @ + 1 ELSE @]

Touched(p, g) == IF g \in pl[p].began THEN lateTouch \cup {g} ELSE lateTouch

\* acquirePollerLock: SET NX EX answers OK iff the key was absent; a store
\* error is answered with true (fail-open).
AcquirePollerLock(held, storeError) == storeError \/ ~held

RECURSIVE Range(_)
Range(seq) == IF seq = <<>> THEN {} ELSE {Head(seq)} \cup Range(Tail(seq))

\* pollOnce up to the loop: acquirePollerLock, return if it answered false,
\* then const active = await getActiveJobgroups(); if (!active.length) return.
\* Nothing the cycle reads is decided between the two awaits, so they are one
\* step.  began remembers which of the snapshot's rows an earlier cycle had
\* already brought to a terminal status.
BeginCycle(p, storeError) ==
    /\ ppc[p] = "idle"
    /\ p \in Submitters => spc[p] = "poll"
    /\ IF AcquirePollerLock(lock, storeError)
       THEN LET active == GetActiveJobgroups(jobgroups)
            IN  /\ lock' = IF storeError THEN lock ELSE TRUE
                /\ ppc' = [ppc EXCEPT ![p] = IF Len(active) = 0 THEN "release" ELSE "retrieve"]
                /\ pl' = [pl EXCEPT ![p].todo = active, ![p].began = termByPoll \cap Range(active)]
                /\ UNCHANGED spc
       ELSE /\ spc' = SubmitReturns(p)
            /\ UNCHANGED <<lock, ppc, pl>>
    /\ UNCHANGED <<runs, qvars, evars, jobgroups, batches, results, aiDesc, sl, faults, termByPoll, lateTouch>>

\* const batch = await client.batches.retrieve(jg.openai_batch_id)
RetrieveBatch(p) ==
    /\ ppc[p] = "retrieve"
    /\ pl' = [pl EXCEPT ![p].seen = batches[jobgroups[Cur(p)].openai_batch_id].status]
    /\ ppc' = [ppc EXCEPT ![p] = "write"]
    /\ lateTouch' = Touched(p, Cur(p))
    /\ UNCHANGED <<runs, qvars, evars, jobgroups, batches, results, aiDesc, lock, spc, sl, faults, termByPoll>>

\* The branch on batch.status: the first updateJobgroupStatus of the loop body
\* (and, for a completed batch, the download of its output file).
WriteBatchStatus(p, storeError) ==
    /\ ppc[p] = "write"
    /\ storeError => faults < MaxFaults
    /\ LET g == Cur(p)
       IN  IF storeError
           THEN /\ Throw(p)
                /\ faults' = faults + 1
                /\ UNCHANGED <<jobgroups, termByPoll, lateTouch>>
           ELSE /\ faults' = faults
                /\ lateTouch' = Touched(p, g)
                /\ IF pl[p].seen = "completed"
                   THEN /\ jobgroups' = SetOutputFileId(jobgroups, g)
                        /\ pl' = [pl EXCEPT ![p].file = batches[jobgroups[g].openai_batch_id].file]
                        /\ ppc' = [ppc EXCEPT ![p] = "count"]
                        /\ UNCHANGED termByPoll
                   ELSE IF pl[p].seen \in {"failed", "expired"}
                   THEN /\ jobgroups' = UpdateJobgroupStatus(jobgroups, g, "failed")
                        /\ termByPoll' = termByPoll \cup {g}
                        /\ Advance(p)
                   ELSE /\ jobgroups' = UpdateJobgroupStatus(jobgroups, g, "in_progress")
                        /\ UNCHANGED termByPoll
                        /\ Advance(p)
    /\ UNCHANGED <<runs, qvars, evars, batches, results, aiDesc, lock, spc, sl>>

\* processCompletedJobgroup, the jobgroup-level idempotency short-circuit.  A
\* store error inside it is caught and processing proceeds to the chunks.
CountShortCircuit(p, storeError) ==
    /\ ppc[p] = "count"
    /\ LET g == Cur(p)
           existingCount == GetJobgroupResultsCount(results, g)
           start == [i \in 1..Len(pl[p].file) |-> "start"]
       IN  IF existingCount # 0 /\ existingCount = Len(pl[p].file)
           THEN /\ storeError => faults < MaxFaults
                /\ IF storeError
                   THEN /\ faults' = faults + 1
                        /\ pl' = [pl EXCEPT ![p].objs = start]
                        /\ ppc' = [ppc EXCEPT ![p] = "chunk"]
                        /\ UNCHANGED <<jobgroups, termByPoll, lateTouch>>
                   ELSE /\ faults' = faults
                        /\ jobgroups' = UpdateJobgroupStatus(jobgroups, g, "completed")
                        /\ termByPoll' = termByPoll \cup {g}
                        /\ lateTouch' = Touched(p, g)
                        /\ Advance(p)
                /\ runs' = IF storeError THEN runs ELSE RunEnded(g)
           ELSE /\ ~storeError
                /\ pl' = [pl EXCEPT ![p].objs = start]
                /\ ppc' = [ppc EXCEPT ![p] = "chunk"]
                /\ UNCHANGED <<jobgroups, faults, termByPoll, lateTouch, runs>>
    /\ UNCHANGED <<qvars, evars, batches, results, aiDesc, lock, spc, sl>>

\* processOneOutputObject up to the asset lookup: parse the custom_id, ask
\* hasJobgroupResult, fetch the asset; the catch block stores a failed row and
\* dead-letters the object.
CheckOutputObject(p, i) ==
    /\ ppc[p] = "chunk"
    /\ i \in 1..Len(pl[p].objs)
    /\ pl[p].objs[i] = "start"
    /\ LET g == Cur(p)
           cid == pl[p].file[i]
           assetId == AssetIdOf(cid)
       IN  IF assetId = "null" \/ HasJobgroupResult(results, g, assetId)
           THEN /\ pl' = [pl EXCEPT ![p].objs[i] = "skipped"]
                /\ UNCHANGED <<results, queues, lateTouch>>
           ELSE IF GetAssetById(assetId)
           THEN /\ pl' = [pl EXCEPT ![p].objs[i] = "write"]
                /\ UNCHANGED <<results, queues, lateTouch>>
           ELSE /\ pl' = [pl EXCEPT ![p].objs[i] = "failed"]
                /\ results' = UpsertJobgroupResult(results, ResultRow(g, assetId, cid, "failed"))
                /\ queues' = SendToDLQ(queues, 0,
                       Job("archivist.jobgroup-result", "none", jobgroups[g].tenant_id, assetId, "none", "none"))
                /\ lateTouch' = Touched(p, g)
    /\ UNCHANGED <<runs, qrest, evars, jobgroups, batches, aiDesc, lock, ppc, spc, sl, faults, termByPoll>>

\* processOneOutputObject after the asset lookup: upsertAiDescription, then
\* upsertJobgroupResult with status completed.
WriteOutputObject(p, i) ==
    /\ ppc[p] = "chunk"
    /\ i \in 1..Len(pl[p].objs)
    /\ pl[p].objs[i] = "write"
    /\ LET g == Cur(p)
           cid == pl[p].file[i]
       IN  /\ aiDesc' = aiDesc \cup {AssetIdOf(cid)}
           /\ results' = UpsertJobgroupResult(results, ResultRow(g, AssetIdOf(cid), cid, "completed"))
           /\ lateTouch' = Touched(p, g)
    /\ pl' = [pl EXCEPT ![p].objs[i] = "processed"]
    /\ UNCHANGED <<runs, qvars, evars, jobgroups, batches, lock, ppc, spc, sl, faults, termByPoll>>

Settled(objs) == \A i \in 1..Len(objs) : objs[i] \in {"processed", "failed", "skipped"}

FailedCount(objs) == Cardinality({i \in 1..Len(objs) : objs[i] = "failed"})

\* After Promise.allSettled of the (single) chunk: refreshPollerLock, which
\* re-arms a TTL this model does not measure, then the final status write.
FinishJobgroup(p, storeError) ==
    /\ ppc[p] = "chunk"
    /\ Settled(pl[p].objs)
    /\ storeError => faults < MaxFaults
    /\ LET g == Cur(p)
       IN  IF storeError
           THEN /\ Throw(p)
                /\ faults' = faults + 1
                /\ UNCHANGED <<jobgroups, termByPoll, lateTouch>>
           ELSE /\ faults' = faults
                /\ jobgroups' = UpdateJobgroupStatus(jobgroups, g,
                                    IF FailedCount(pl[p].objs) > 0 THEN "failed" ELSE "completed")
                /\ termByPoll' = termByPoll \cup {g}
                /\ lateTouch' = Touched(p, g)
                /\ Advance(p)
    /\ runs' = RunEnded(Cur(p))
    /\ UNCHANGED <<qvars, evars, batches, results, aiDesc, lock, spc, sl>>

\* finally { await releasePollerLock(logger) }: DEL of the key, whoever set it.
ReleasePollerLock(p) ==
    /\ ppc[p] = "release"
    /\ lock' = FALSE
    /\ ppc' = [ppc EXCEPT ![p] = "idle"]
    /\ pl' = [pl EXCEPT ![p] = NoLocals]
    /\ spc' = SubmitReturns(p)
    /\ UNCHANGED <<runs, qvars, evars, jobgroups, batches, results, aiDesc, sl, faults, termByPoll, lateTouch>>

\* The key's TTL (POLLER_LOCK_TTL_SEC) runs out while the key exists.
LockExpires ==
    /\ lock
    /\ lock' = FALSE
    /\ UNCHANGED <<runs, qvars, evars, jobgroups, batches, results, aiDesc, ppc, pl, spc, sl, faults, termByPoll, lateTouch>>

(***************************************************************************)
(* runJobgroupArchivist, the operator's cancel, and the remote service     *)
(***************************************************************************)
\* The throttle of runJobgroupArchivist: read the tenant's recent jobgroups
\* and throw when one of them is active or when RATE_LIMIT of them were
\* created in the last 24 hours.
ThrottleAdmits(rows, tenant, now) ==
    /\ ~(Cardinality(ActiveForTenant(rows, tenant)) >= 1)
    /\ ~(Cardinality(Last24ForTenant(rows, tenant, now)) >= RATE_LIMIT)

\* A rejected call changes nothing.  bound caps the rows a behaviour creates.
ThrottleCheckUpTo(s, tenant, bound) ==
    /\ spc[s] = "idle"
    /\ Len(batches) + Cardinality({x \in Submitters : spc[x] = "checked"}) < bound
    /\ ThrottleAdmits(jobgroups, tenant, clock)
    /\ spc' = [spc EXCEPT ![s] = "checked"]
    /\ sl' = [sl EXCEPT ![s].tenant = tenant]
    /\ UNCHANGED <<runs, qvars, evars, jobgroups, batches, results, aiDesc, lock, ppc, pl, faults, termByPoll, lateTouch>>

ThrottleCheck(s, tenant) == ThrottleCheckUpTo(s, tenant, MaxJobgroups)

\* Time passes.
Tick ==
    /\ clock < MaxClock
    /\ clock' = clock + 1
    /\ UNCHANGED <<qvars, jvars, reply, routed, svars, tvars, trip, retry, admin, b2, lockKey, lastRun, yvars>>

\* files.create, batches.create, then createJobgroup with the status the
\* remote service answered; the inline pollOnce follows.
CreateAndPersist(s) ==
    /\ spc[s] = "checked"
    /\ batches' = Append(batches, RemoteBatch("validating", <<>>))
    /\ jobgroups' = CreateJobgroup(jobgroups, sl[s].tenant, "validating", Len(batches) + 1, clock)
    /\ spc' = [spc EXCEPT ![s] = "poll"]
    /\ sl' = [sl EXCEPT ![s] = NoSubmit]
    /\ UNCHANGED <<runs, qvars, evars, results, aiDesc, lock, ppc, pl, faults, termByPoll, lateTouch>>

\* cancelJobgroupCLI: batches.cancel (which the remote service accepts only for
\* a batch still in flight), then update ... set status = 'cancelled'.
CancelJobgroupCLI(g) ==
    /\ g \in 1..Len(jobgroups)
    /\ batches[jobgroups[g].openai_batch_id].status \in {"validating", "in_progress"}
    /\ batches' = [batches EXCEPT ![jobgroups[g].openai_batch_id].status = "cancelling"]
    /\ jobgroups' = UpdateJobgroupStatus(jobgroups, g, "cancelled")
    /\ UNCHANGED <<runs, qvars, evars, results, aiDesc, lock, ppc, pl, spc, sl, faults, termByPoll, lateTouch>>

\* The remote service finishes a batch: completed with an output file, failed,
\* or cancelled after a cancel request.
RemoteFinishes(b, outcome, file) ==
    /\ b \in 1..Len(batches)
    /\ IF batches[b].status = "cancelling"
       THEN outcome = "cancelled" /\ file = <<>>
       ELSE /\ batches[b].status \in {"validating", "in_progress"}
            /\ outcome \in {"completed", "failed"}
            /\ (outcome = "completed") = (file # <<>>)
    /\ batches' = [batches EXCEPT ![b] = RemoteBatch(outcome, file)]
    /\ UNCHANGED <<runs, qvars, evars, jobgroups, results, aiDesc, lock, ppc, pl, spc, sl, faults, termByPoll, lateTouch>>

RemoteOutcomes == {"completed", "failed", "cancelled"}

(***************************************************************************)
(* The worker processes, step by step                                      *)
(*                                                                         *)
(* Each worker is an OS process running its loop.  A loop is at the top of *)
(* an iteration ("top"), inside a handler ("handling"), or its process has *)
(* ended ("dead").  No file of the repository registers a signal handler   *)
(* and none assigns shuttingDown, so a signal has its default disposition: *)
(* the process ends at once.                                               *)
(***************************************************************************)
\* let shuttingDown = false; never assigned afterwards.
shuttingDown == FALSE

AtTop == [pc |-> "top", key |-> "none", el |-> Element(0, Garbage)]

Handling(key, el) == [pc |-> "handling", key |-> key, el |-> el]

Dead == [pc |-> "dead", key |-> "none", el |-> Element(0, Garbage)]

\* A loop that ends with the first handler error.
AfterHandlerErrorExits == Dead

\* Where a loop goes once the catch block around a failed handler is done.
AfterHandlerError == AtTop

\* startMachinistWorker, first half of an iteration: BRPOP, parse; the raw
\* element goes to DLQ_QUEUE on a parse error, otherwise the handler starts.
MachinistDequeue ==
    /\ proc["machinist"].pc = "top"
    /\ \E i \in 1..3 : Len(queues[LISTEN_QUEUES[i]]) > 0
    /\ LET key == LISTEN_QUEUES[BrPopIndex(queues)]
           el  == RHead(queues, key)
       IN  IF ~ParseOk(el)
           THEN /\ queues' = RPush(RPopped(queues, key), DLQ_QUEUE, el)
                /\ UNCHANGED <<proc, takes>>
           ELSE /\ queues' = RPopped(queues, key)
                /\ proc' = [proc EXCEPT !["machinist"] = Handling(key, el)]
                /\ takes' = Append(takes, el.seq)
    /\ UNCHANGED <<nextSeq, apc, lastTake, failedJobs, garbageTaken, interrupted,
                   jvars, reply, routed, svars, xvars, yvars>>

\* startMachinistWorker, second half: the handler ends; when it threw, the
\* raw element is pushed to DLQ_QUEUE, and when that push throws as well
\* the outer catch logs, waits and the loop goes on.
MachinistHandled(pipelineOk, storeOk) ==
    /\ proc["machinist"].pc = "handling"
    /\ LET key == proc["machinist"].key
           el  == proc["machinist"].el
           r   == MachinistHandle(key, ParseJob(el), pipelineOk)
           q2  == IF r.dlq /\ storeOk THEN SendToDLQ(queues, el.seq, ParseJob(el)) ELSE queues
       IN  /\ queues' = IF r.threw /\ storeOk THEN RPush(q2, DLQ_QUEUE, el) ELSE q2
           /\ failedJobs' = IF r.threw THEN failedJobs \cup {el.seq} ELSE failedJobs
           /\ proc' = [proc EXCEPT !["machinist"] = IF r.threw THEN AfterHandlerError ELSE AtTop]
    /\ UNCHANGED <<nextSeq, apc, lastTake, garbageTaken, interrupted, takes,
                   jvars, reply, routed, svars, xvars, yvars>>

\* startArchivistPollingLoop, one dequeue: the while condition is read at
\* the top of an iteration (before the instant stage); an empty queue or an
\* unparsable element moves on to the next stage.
ArchivistDequeue ==
    /\ proc["archivist"].pc = "top"
    /\ apc = "instant" => ~shuttingDown
    /\ LET key == ArchivistQueues[StageIndex(apc)]
       IN  IF Len(queues[key]) = 0
           THEN /\ apc' = NextStage(apc)
                /\ UNCHANGED <<queues, proc, takes>>
           ELSE IF ~ParseOk(LHead(queues, key))
           THEN /\ queues' = LPopped(queues, key)
                /\ apc' = NextStage(apc)
                /\ UNCHANGED <<proc, takes>>
           ELSE /\ queues' = LPopped(queues, key)
                /\ proc' = [proc EXCEPT !["archivist"] = Handling(key, LHead(queues, key))]
                /\ takes' = Append(takes, LHead(queues, key).seq)
                /\ UNCHANGED apc
    /\ UNCHANGED <<nextSeq, lastTake, failedJobs, garbageTaken, interrupted,
                   jvars, reply, routed, svars, xvars, yvars>>

\* startArchivistPollingLoop: the handler of the current stage ends; the
\* loop logs a thrown error and goes to the next stage.
ArchivistHandled(pipelineOk) ==
    /\ proc["archivist"].pc = "handling"
    /\ LET el == proc["archivist"].el
           r  == ArchivistHandle(StageIndex(apc), ParseJob(el), pipelineOk)
       IN  /\ queues' = IF r.dlq THEN SendToDLQ(queues, el.seq, r.dlqJob) ELSE queues
           /\ failedJobs' = IF r.threw THEN failedJobs \cup {el.seq} ELSE failedJobs
           /\ proc' = [proc EXCEPT !["archivist"] = IF r.threw THEN AfterHandlerError ELSE AtTop]
    /\ apc' = NextStage(apc)
    /\ UNCHANGED <<nextSeq, lastTake, garbageTaken, interrupted, takes,
                   jvars, reply, routed, svars, xvars, yvars>>

\* SIGTERM or SIGINT reaches the process of worker w: with no handler
\* registered the process ends, whatever the loop was doing.
OsSignal(w) ==
    /\ proc[w].pc # "dead"
    /\ proc' = [proc EXCEPT ![w] = Dead]
    /\ interrupted' = IF proc[w].pc = "handling"
                      THEN interrupted \cup {proc[w].el.seq}
                      ELSE interrupted
    /\ UNCHANGED <<qvars, takes, jvars, reply, routed, svars, xvars, yvars>>

(***************************************************************************)
(* The queue helpers, call by call                                         *)
(***************************************************************************)
\* What popJob and the helpers' dequeue return: the parsed job, or null.
ReturnedJob(job) == [null |-> FALSE, job |-> job]

ReturnedNull == [null |-> TRUE, job |-> NoJob]

\* A push, whether the list was empty before it, whether it threw, and what
\* the pop that followed it returned.
Trip(key, job, wasEmpty, threw, stage, got) ==
    [key |-> key, job |-> job, wasEmpty |-> wasEmpty, threw |-> threw, stage |-> stage, got |-> got]

NoTrip == Trip("none", NoJob, FALSE, FALSE, "none", ReturnedNull)

\* popJob: lPop; if (!raw) return null; JSON.parse, null when it throws.
PopJob(q, key) ==
    IF q[key] = <<>> THEN ReturnedNull
    ELSE IF ParseOk(LHead(q, key)) THEN ReturnedJob(ParseJob(LHead(q, key)))
    ELSE ReturnedNull

\* enqueue(job) of a queue helper: validateJob throws before anything is
\* pushed; otherwise pushJob.
EnqueueCall(key, job) ==
    /\ nextSeq <= MaxJobs
    /\ IF HelperValidateJob(key, job)
       THEN /\ queues' = PushJob(queues, key, nextSeq, job)
            /\ nextSeq' = nextSeq + 1
            /\ trip' = Trip(key, job, queues[key] = <<>>, FALSE, "pushed", ReturnedNull)
       ELSE /\ trip' = Trip(key, job, queues[key] = <<>>, TRUE, "pushed", ReturnedNull)
            /\ UNCHANGED <<queues, nextSeq>>
    /\ UNCHANGED <<apc, lastTake, failedJobs, garbageTaken, jvars, reply, routed, svars, tvars, clock, retry, admin, b2, lockKey, lastRun, yvars>>

\* pushJob(queueName, jobData), called directly.
PushJobCall(key, job) ==
    /\ nextSeq <= MaxJobs
    /\ queues' = PushJob(queues, key, nextSeq, job)
    /\ nextSeq' = nextSeq + 1
    /\ trip' = Trip(key, job, queues[key] = <<>>, FALSE, "pushed", ReturnedNull)
    /\ UNCHANGED <<apc, lastTake, failedJobs, garbageTaken, jvars, reply, routed, svars, tvars, clock, retry, admin, b2, lockKey, lastRun, yvars>>

\* dequeue() of a queue helper, which is popJob(key).  The call continues the
\* trip when it follows the push on the same key.
DequeueCall(key) ==
    /\ queues' = IF queues[key] = <<>> THEN queues ELSE LPopped(queues, key)
    /\ trip' = IF trip.key = key /\ trip.stage = "pushed"
               THEN [trip EXCEPT !.stage = "popped", !.got = PopJob(queues, key)]
               ELSE NoTrip
    /\ UNCHANGED <<nextSeq, apc, lastTake, failedJobs, garbageTaken, jvars, reply, routed, svars, tvars, clock, retry, admin, b2, lockKey, lastRun, yvars>>

(***************************************************************************)
(* withRetry                                                               *)
(***************************************************************************)
\* Invocations of fn a behaviour can hold: one more than any call allows.
MaxCalls == MaxRetriesArg + 2

\* fn, by invocation: TRUE when that invocation resolves.  The value the
\* k-th invocation resolves with is k.
RetryFns == [1..MaxCalls -> BOOLEAN]

\* maxElapsedTime by its effect: the number of failed invocations after which
\* Date.now() - start >= maxElapsedTime holds; MaxCalls when it never does.
RetryDeadlines == {1, MaxCalls}

RetryCall(maxRetries, fn, deadline, pc, attempt, calls, value) ==
    [maxRetries |-> maxRetries, fn |-> fn, deadline |-> deadline,
     pc |-> pc, attempt |-> attempt, calls |-> calls, value |-> value]

RetryIdle == RetryCall(0, [k \in 1..MaxCalls |-> FALSE], MaxCalls, "idle", 0, 0, 0)

\* attempt += 1 left out.
NextAttemptStuck(attempt) == attempt

\* attempt += 1
NextAttempt(attempt) == attempt + 1

\* withRetry(fn, {maxRetries, maxElapsedTime}): let attempt = 0.
WithRetryCalled(maxRetries, fn, deadline) ==
    /\ retry.pc # "loop"
    /\ retry' = RetryCall(maxRetries, fn, deadline, "loop", 0, 0, 0)
    /\ UNCHANGED <<qvars, jvars, reply, routed, svars, tvars, clock, trip, admin, b2, lockKey, lastRun, yvars>>

\* One evaluation of while (attempt <= maxRetries) and, inside it, one
\* invocation of fn with what follows it: return, break, or the next attempt.
WithRetryIteration ==
    /\ retry.pc = "loop"
    /\ IF ~(retry.attempt <= retry.maxRetries)
       THEN retry' = [retry EXCEPT !.pc = "threw"]
       ELSE LET k == retry.calls + 1
            IN  IF retry.fn[k]
                THEN retry' = [retry EXCEPT !.calls = k, !.pc = "returned", !.value = k]
                ELSE IF retry.attempt = retry.maxRetries \/ k >= retry.deadline
                THEN retry' = [retry EXCEPT !.calls = k, !.pc = "threw"]
                ELSE retry' = [retry EXCEPT !.calls = k, !.attempt = NextAttempt(@)]
    /\ UNCHANGED <<qvars, jvars, reply, routed, svars, tvars, clock, trip, admin, b2, lockKey, lastRun, yvars>>

(***************************************************************************)
(* The DLQ endpoints of the control plane                                  *)
(***************************************************************************)
\* A query parameter or body field as the handler receives it: absent, a
\* JSON number, a string of digits with an optional sign, or other text.
Absent == [kind |-> "absent", val |-> 0]

Number(n) == [kind |-> "number", val |-> n]

Digits(n) == [kind |-> "digits", val |-> n]

Text == [kind |-> "text", val |-> 0]

NaN == [nan |-> TRUE, val |-> 0]

Num(n) == [nan |-> FALSE, val |-> n]

\* parseInt(p || dflt, 10): absent, the empty string and the number 0 are
\* falsy and give dflt; the string '0' is not.
ParseIntOr(p, dflt) ==
    CASE p.kind = "absent" -> Num(dflt)
      [] p.kind = "number" -> IF p.val = 0 THEN Num(dflt) ELSE Num(p.val)
      [] p.kind = "digits" -> Num(p.val)
      [] OTHER -> NaN

\* Math.min(x, cap)
MathMin(x, cap) == IF x.nan THEN NaN ELSE IF x.val < cap THEN x ELSE Num(cap)

DLQ_LIMIT_DEFAULT == 50

DLQ_LIMIT_MAX == 200

REQUEUE_COUNT_DEFAULT == 10

REQUEUE_COUNT_MAX == 1000

\* LRANGE key start stop: a negative index counts from the right end, an
\* index outside the list is clamped, both ends are included.
LRange(list, start, stop) ==
    LET len == Len(list)
        s == IF start < 0 THEN (IF len + start < 0 THEN 0 ELSE len + start) ELSE start
        e == IF stop < 0 THEN len + stop ELSE (IF stop > len - 1 THEN len - 1 ELSE stop)
    IN  IF s > e \/ s >= len THEN <<>> ELSE SubSeq(list, s + 1, e + 1)

AdminExchange(op, p1, p2, status, items, moved, srcBefore, dstBefore, dst) ==
    [op |-> op, p1 |-> p1, p2 |-> p2, status |-> status, items |-> items, moved |-> moved,
     srcBefore |-> srcBefore, dstBefore |-> dstBefore, dst |-> dst]

NoAdmin == AdminExchange("none", Absent, Absent, 0, <<>>, 0, <<>>, <<>>, "none")

DLQ_DEFAULT_KEY == "dlq:machinist"

\* A failed machinist job's entry arrives on dlq:machinist; the list is let
\* grow to bound entries.
DlqArrival(bound) ==
    /\ nextSeq <= bound
    /\ queues' = RPush(queues, DLQ_DEFAULT_KEY,
                       DlqEntry(nextSeq, Job("machinist", "instant", "uuid", "uuid", "uuid", "viewing")))
    /\ nextSeq' = nextSeq + 1
    /\ UNCHANGED <<apc, lastTake, failedJobs, garbageTaken, jvars, reply, routed, svars, tvars, clock, trip, retry, admin, b2, lockKey, lastRun, yvars>>

\* GET /queues/dlq?offset=..&limit=.. with a valid token.  lRange is sent the
\* numbers as text, and the store refuses 'NaN' (answer 500).
GetDlq(offsetParam, limitParam) ==
    LET offset == ParseIntOr(offsetParam, 0)
        limit == MathMin(ParseIntOr(limitParam, DLQ_LIMIT_DEFAULT), DLQ_LIMIT_MAX)
    IN  /\ admin' = IF offset.nan \/ limit.nan
                    THEN AdminExchange("list", offsetParam, limitParam, 500, <<>>, 0, <<>>, <<>>, "none")
                    ELSE AdminExchange("list", offsetParam, limitParam, 200,
                                       LRange(queues[DLQ_DEFAULT_KEY], offset.val, offset.val + limit.val - 1),
                                       0, <<>>, <<>>, "none")
        /\ UNCHANGED <<qvars, jvars, reply, routed, svars, tvars, clock, trip, retry, b2, lockKey, lastRun, yvars>>

\* The requeue loop: rPop srcKey, break on nothing, rPush dstKey, moved++.
RECURSIVE RequeueLoop(_, _, _, _, _)
RequeueLoop(q, src, dst, i, count) ==
    IF ~(i < count) \/ q[src] = <<>> THEN [q |-> q, moved |-> i]
    ELSE RequeueLoop(RPush(RPopped(q, src), dst, RHead(q, src)), src, dst, i + 1, count)

\* POST /queues/dlq/requeue {dstKey, count} with a valid token and the
\* default srcKey; dst = "none" stands for a body without dstKey.
PostRequeue(dst, countParam) ==
    LET count == MathMin(ParseIntOr(countParam, REQUEUE_COUNT_DEFAULT), REQUEUE_COUNT_MAX)
        done == RequeueLoop(queues, DLQ_DEFAULT_KEY, dst, 0, IF count.nan THEN 0 ELSE count.val)
    IN  /\ IF dst = "none"
           THEN /\ admin' = AdminExchange("requeue", countParam, Absent, 400, <<>>, 0,
                                          queues[DLQ_DEFAULT_KEY], <<>>, dst)
                /\ UNCHANGED queues
           ELSE /\ queues' = done.q
                /\ admin' = AdminExchange("requeue", countParam, Absent, 200, <<>>, done.moved,
                                          queues[DLQ_DEFAULT_KEY], queues[dst], dst)
        /\ UNCHANGED <<qrest, jvars, reply, routed, svars, tvars, clock, trip, retry, b2, lockKey, lastRun, yvars>>

\* POST /queues/dlq/requeue in which the failAt-th rPush rejects: the loop
\* has moved failAt - 1 entries and popped one more when the await throws;
\* the catch block answers 500.
PostRequeueRejected(dst, countParam, failAt) ==
    LET count == MathMin(ParseIntOr(countParam, REQUEUE_COUNT_DEFAULT), REQUEUE_COUNT_MAX)
        done == RequeueLoop(queues, DLQ_DEFAULT_KEY, dst, 0, failAt - 1)
    IN  /\ dst # "none"
        /\ ~count.nan
        /\ failAt <= count.val
        /\ failAt <= Len(queues[DLQ_DEFAULT_KEY])
        /\ queues' = RPopped(done.q, DLQ_DEFAULT_KEY)
        /\ admin' = AdminExchange("requeue", countParam, Absent, 500, <<>>, done.moved,
                                  queues[DLQ_DEFAULT_KEY], queues[dst], dst)
        /\ UNCHANGED <<qrest, jvars, reply, routed, svars, tvars, clock, trip, retry, b2, lockKey, lastRun, yvars>>

(***************************************************************************)
(* The blob-store concurrency pool (withB2Limit, runNext)                  *)
(***************************************************************************)
B2_CONCURRENCY_DEFAULT == 5

\* Values of B2_CONCURRENCY_LIMIT in the environment: unset, '1', '2'.
B2Envs == {Absent, Digits(1), Digits(2)}

\* Tasks are numbered in the order withB2Limit receives them.  queue holds
\* the tasks not yet shifted, taken the tasks shifted whose taskFn has not
\* been called yet, running the tasks whose taskFn was called and whose
\* finally handler has not run.
Pool(loaded, limit, active, submitted, queue, taken, running) ==
    [loaded |-> loaded, limit |-> limit, active |-> active, submitted |-> submitted,
     queue |-> queue, taken |-> taken, running |-> running]

NoPool == Pool(FALSE, 0, 0, 0, <<>>, {}, {})

\* The guard of runNext without its comparison.
PoolFullNever(active, limit) == FALSE

\* if (active >= limit) return
PoolFull(active, limit) == active >= limit

\* runNext(): return when the pool is full or the queue is empty; otherwise
\* shift one item, active += 1, and schedule its taskFn.
RunNext(p) ==
    IF PoolFull(p.active, p.limit) \/ p.queue = <<>> THEN p
    ELSE [p EXCEPT !.queue = Tail(@), !.active = @ + 1, !.taken = @ \cup {Head(p.queue)}]

\* The module is loaded: limit = parseInt(env || '5', 10), active = 0.
B2ModuleLoaded(env) ==
    /\ ~b2.loaded
    /\ b2' = Pool(TRUE, ParseIntOr(env, B2_CONCURRENCY_DEFAULT).val, 0, 0, <<>>, {}, {})
    /\ UNCHANGED <<qvars, jvars, reply, routed, svars, tvars, clock, trip, retry, admin, lockKey, lastRun, yvars>>

\* withB2Limit(taskFn): queue.push, runNext().
WithB2Limit ==
    /\ b2.loaded
    /\ b2.submitted < MaxTasks
    /\ b2' = RunNext([b2 EXCEPT !.submitted = @ + 1, !.queue = Append(@, b2.submitted + 1)])
    /\ UNCHANGED <<qvars, jvars, reply, routed, svars, tvars, clock, trip, retry, admin, lockKey, lastRun, yvars>>

\* Promise.resolve().then(() => taskFn()): the task begins.
B2TaskBegins(t) ==
    /\ t \in b2.taken
    /\ b2' = [b2 EXCEPT !.taken = @ \ {t}, !.running = @ \cup {t}]
    /\ UNCHANGED <<qvars, jvars, reply, routed, svars, tvars, clock, trip, retry, admin, lockKey, lastRun, yvars>>

\* The task resolves or rejects; finally: active -= 1, runNext().
B2TaskSettles(t) ==
    /\ t \in b2.running
    /\ b2' = RunNext([b2 EXCEPT !.running = @ \ {t}, !.active = @ - 1])
    /\ UNCHANGED <<qvars, jvars, reply, routed, svars, tvars, clock, trip, retry, admin, lockKey, lastRun, yvars>>

(***************************************************************************)
(* The poller lock in time: SET NX EX, EXPIRE, DEL, and the key's expiry   *)
(***************************************************************************)
\* age counts the ticks since the key was last SET or its TTL last renewed,
\* and keeps counting (up to MaxLockAge) after the key is gone.
LockKey(age, setBy) == [age |-> age, setBy |-> setBy]

NoKey == LockKey(0, "none")

MaxLockAge == LockTtlTicks + 2

\* A key that never expires: SET NX without EX.
KeyGoneNever(age, ttl) == FALSE

\* EX POLLER_LOCK_TTL_SEC: the store removes the key ttl after its last SET
\* or EXPIRE.
KeyGone(age, ttl) == age >= ttl

\* pollOnce begins: acquirePollerLock.  SET NX EX answers OK iff the key is
\* absent; a store error is answered with true and sets nothing.
AcquireInTime(p, storeError) ==
    /\ ppc[p] = "idle"
    /\ IF AcquirePollerLock(lock, storeError)
       THEN /\ ppc' = [ppc EXCEPT ![p] = "chunk"]
            /\ IF storeError THEN UNCHANGED <<lock, lockKey>>
               ELSE lock' = TRUE /\ lockKey' = LockKey(0, p)
       ELSE UNCHANGED <<ppc, lock, lockKey>>
    /\ UNCHANGED <<qvars, jobgroups, batches, results, aiDesc, pl, spc, sl, faults, termByPoll,
                   lateTouch, runs, reply, routed, svars, tvars, clock, trip, retry, admin, b2, lastRun, yvars>>

\* refreshPollerLock after a chunk: EXPIRE renews the TTL of the key if it
\* exists, whoever set it.
RefreshInTime(p) ==
    /\ ppc[p] = "chunk"
    /\ lock
    /\ lockKey' = [lockKey EXCEPT !.age = 0]
    /\ UNCHANGED <<qvars, jvars, reply, routed, svars, tvars, clock, trip, retry, admin, b2, lastRun, yvars>>

\* finally: releasePollerLock, DEL of the key.
ReleaseInTime(p) ==
    /\ ppc[p] = "chunk"
    /\ ppc' = [ppc EXCEPT ![p] = "idle"]
    /\ lock' = FALSE
    /\ UNCHANGED <<qvars, jobgroups, batches, results, aiDesc, pl, spc, sl, faults, termByPoll,
                   lateTouch, runs, reply, routed, svars, tvars, clock, trip, retry, admin, b2, lockKey, lastRun, yvars>>

\* The process of poller p ends inside its cycle: no finally block runs.
PollerCrashes(p) ==
    /\ ppc[p] = "chunk"
    /\ ppc' = [ppc EXCEPT ![p] = "crashed"]
    /\ UNCHANGED <<qvars, jobgroups, batches, results, aiDesc, lock, pl, spc, sl, faults, termByPoll,
                   lateTouch, runs, reply, routed, svars, tvars, clock, trip, retry, admin, b2, lockKey, lastRun, yvars>>

\* One tick of the store's clock; the key is removed when its TTL has run out.
LockTick ==
    /\ lockKey.age < MaxLockAge
    /\ lockKey' = [lockKey EXCEPT !.age = @ + 1]
    /\ lock' = (lock /\ ~KeyGone(lockKey.age + 1, LockTtlTicks))
    /\ UNCHANGED <<qvars, jobgroups, batches, results, aiDesc, ppc, pl, spc, sl, faults, termByPoll,
                   lateTouch, runs, reply, routed, svars, tvars, clock, trip, retry, admin, b2, lastRun, yvars>>

(***************************************************************************)
(* runMachinistPipeline for a preservation job: the original's upload and  *)
(* the archive step                                                        *)
(***************************************************************************)
PreservationJob == Job("machinist", "standard", "uuid", "uuid", "uuid", "preservation")

\* bundle: the archive bucket holds the asset's preservation.tar.gz;
\* bundleRow: a create_asset_version call for that bundle has succeeded.
PipelineRun(status, bundle, bundleRow) == [status |-> status, bundle |-> bundle, bundleRow |-> bundleRow]

NoPipelineRun == PipelineRun("none", FALSE, FALSE)

\* withRetry(..., {maxRetries: 2}) around the archive step.
ARCHIVE_MAX_RETRIES == 2

\* sendToDLQ by each failed attempt of the archive step.
RECURSIVE DlqPushes(_, _, _, _)
DlqPushes(q, seq, job, n) ==
    IF n = 0 THEN q ELSE DlqPushes(SendToDLQ(q, seq, job), seq + 1, job, n - 1)

\* One run of the pipeline for PreservationJob, from the upload of the
\* original on.  exists: fileExists found the original in the bucket;
\* origOk: uploadAndRecordPreservation succeeded; lookupOk, uploadOk, rpcOk:
\* the archive step's lookup, upload and create_asset_version succeeded (in
\* every attempt withRetry makes).  A failure of the original's upload ends
\* the run as failed; a failure of the archive step is logged and the run
\* goes on to return {status: 'complete'}.
RunPreservationPipeline(exists, origOk, lookupOk, uploadOk, rpcOk) ==
    LET job == PreservationJob
        afterOriginal ==
            IF exists THEN assetVersions
            ELSE RecordVersion(assetVersions, job.asset_id, PreservationVersion(job),
                               IF origOk THEN "success" ELSE "failed", TRUE, TRUE)
        originalFailed == ~exists /\ ~origOk
        skip == lookupOk /\ HasPreservationVersion(afterOriginal, job.asset_id)
        archiveFailed == ~lookupOk \/ (~skip /\ (~uploadOk \/ ~rpcOk))
        attempts == ARCHIVE_MAX_RETRIES + 1
        didUpload == lookupOk /\ ~skip /\ uploadOk
    IN  /\ Len(afterOriginal) < MaxVersions
        /\ nextSeq + attempts <= MaxJobs + 1
        /\ IF originalFailed
           THEN /\ assetVersions' = afterOriginal
                /\ lastRun' = [lastRun EXCEPT !.status = "failed"]
                /\ UNCHANGED <<queues, nextSeq>>
           ELSE IF skip
           THEN /\ assetVersions' = afterOriginal
                /\ lastRun' = [lastRun EXCEPT !.status = "complete"]
                /\ UNCHANGED <<queues, nextSeq>>
           ELSE IF archiveFailed
           THEN /\ assetVersions' = UpdateFailedReason(afterOriginal, job.asset_id)
                /\ queues' = DlqPushes(queues, nextSeq, job, attempts)
                /\ nextSeq' = nextSeq + attempts
                /\ lastRun' = PipelineRun("complete", lastRun.bundle \/ didUpload, lastRun.bundleRow)
           ELSE /\ assetVersions' = CreateAssetVersion(afterOriginal, job.asset_id, ArchiveVersion, "success")
                /\ lastRun' = PipelineRun("complete", TRUE, TRUE)
                /\ UNCHANGED <<queues, nextSeq>>
        /\ UNCHANGED <<apc, lastTake, failedJobs, garbageTaken, jvars, reply, routed, dlqCall,
                       lastArchive, tvars, clock, trip, retry, admin, b2, lockKey, yvars>>

(***************************************************************************)
(* runMachinistPipeline: the working directory on each exit path           *)
(***************************************************************************)
\* Where a run leaves the function: an invalid job and low free memory raise
\* before createWorkDir; the dry run returns early; the others are the end
\* of the try block and its catch block.
ExitPaths == {"invalid", "lowmem", "dryrun", "complete", "failed"}

CreatesWorkDir(path) == path \in {"dryrun", "complete", "failed"}

Raises(path) == path \in {"invalid", "lowmem", "failed"}

\* await fs.rm(workDir, {recursive, force}) with fs = require('fs'): the
\* callback form is called without a callback.  Depending on the runtime's
\* version the call throws at once (the surrounding try/catch swallows it) or
\* starts the removal and returns undefined, which await does not wait for.
FsRmOutcomes == {"threw", "background"}

\* The directory after the call, as the awaiting code finds it.
FsRm(dir, outcome) == IF outcome = "threw" THEN dir ELSE "removing"

DirExists(dir) == dir \in {"exists", "removing"}

PipelineExit(path, exit, dir) ==
    [path |-> path, exit |-> exit, dir |-> dir, dirAtExit |-> DirExists(dir)]

\* One run of runMachinistPipeline for the job, by its exit path.
RunMachinistPipeline(path, rm) ==
    /\ Len(pipeRuns) < MaxPipelineRuns
    /\ nextSeq <= MaxJobs
    /\ pipeRuns' = Append(pipeRuns,
                          PipelineExit(path,
                                       IF Raises(path) THEN "raised" ELSE "returned",
                                       IF CreatesWorkDir(path) THEN FsRm("exists", rm) ELSE "none"))
    /\ IF path = "invalid"
       THEN /\ queues' = SendToDLQ(queues, nextSeq, MachinistJob)
            /\ nextSeq' = nextSeq + 1
       ELSE UNCHANGED <<queues, nextSeq>>
    /\ UNCHANGED <<apc, lastTake, failedJobs, garbageTaken, jvars, reply, routed, svars, tvars, xvars, sub, legacy, mig>>

\* A removal that was started in the background completes.
BackgroundRemovalEnds(i) ==
    /\ i \in DOMAIN pipeRuns
    /\ pipeRuns[i].dir = "removing"
    /\ pipeRuns' = [pipeRuns EXCEPT ![i].dir = "gone"]
    /\ UNCHANGED <<qvars, jvars, reply, routed, svars, tvars, xvars, sub, legacy, mig>>

(***************************************************************************)
(* processBatchArchivistJob: one submission request, call by call          *)
(*                                                                         *)
(* A request is runJobgroupArchivist under withRetry.  Each call validates *)
(* the jobs, passes the throttle, builds the JSONL file, uploads it,       *)
(* creates the remote batch and persists the jobgroups row; a call that    *)
(* throws is repeated until BATCH_MAX_RETRIES retries are used up, and     *)
(* then the job group wrapper goes to the dead-letter list.                *)
(***************************************************************************)
\* withRetry(..., { maxRetries: 2, ... }) in processBatchArchivistJob
BATCH_MAX_RETRIES == 2

\* The fields of a jobgroup job that the schema and the builder look at; the
\* tenant is the one tenant of the model.  image_url "" stands for a job
\* without one.
BatchJob(asset, url, pt) == [asset_id |-> asset, image_url |-> url, processing_type |-> pt]

\* Job group members: jobs the schema accepts, with and without an
\* image_url, and one it rejects.
BatchJobInputs ==
    {BatchJob(a, u, "jobgroup") : a \in {"a1", "a2"}, u \in {"https://img", ""}}
        \cup {BatchJob("a1", "https://img", "bogus")}

JobLists == SeqsUpTo(BatchJobInputs, MaxGroupJobs) \ {<<>>}

\* validateArchivistJob: assertIn('processing_type', ...); image_url is not
\* looked at.
ValidArchivistJob(job) == job.processing_type \in {"instant", "standard", "jobgroup", "batch"}

\* jobs.map(validateArchivistJob): throws on the first job that is invalid.
AllValid(jobs) == \A i \in 1..Len(jobs) : ValidArchivistJob(jobs[i])

\* The builder without its skip: a line for every job.
RECURSIVE BuildJobgroupJsonlFileAll(_)
BuildJobgroupJsonlFileAll(jobs) ==
    IF jobs = <<>> THEN <<>>
    ELSE <<CustomId(Head(jobs).asset_id)>> \o BuildJobgroupJsonlFileAll(Tail(jobs))

\* buildJobgroupJsonlFile: for each job, continue when !image_url (tenant_id
\* and asset_id are present in every validated job), else count++ and one
\* line with custom_id `asset-${asset_id}`.  The result is the lines' ids.
RECURSIVE BuildJobgroupJsonlFile(_)
BuildJobgroupJsonlFile(jobs) ==
    IF jobs = <<>> THEN <<>>
    ELSE LET rest == BuildJobgroupJsonlFile(Tail(jobs))
         IN  IF Head(jobs).image_url = "" THEN rest
             ELSE <<CustomId(Head(jobs).asset_id)>> \o rest

\* The awaits of one call that can reject after the file is built.
StepFailures == {"none", "upload", "batch", "persist"}

Submission(jobs, calls, state, lines, batchIds, rowIds, requestCount) ==
    [jobs |-> jobs, calls |-> calls, state |-> state, lines |-> lines,
     batchIds |-> batchIds, rowIds |-> rowIds, request_count |-> requestCount]

NoSubmission == Submission(<<>>, 0, "none", <<>>, {}, {}, 0)

Running == sub.state = "running"

\* processBatchArchivistJob is entered with a job group.
ProcessBatchArchivistJob(jobs) ==
    /\ ~Running
    /\ spc["worker"] = "idle"
    /\ nextSeq <= MaxJobs
    /\ sub' = Submission(jobs, 0, "running", <<>>, {}, {}, 0)
    /\ UNCHANGED <<qvars, jvars, reply, routed, svars, tvars, xvars, pipeRuns, legacy, mig>>

\* One call of runJobgroupArchivist by withRetry and what withRetry and the
\* catch block of processBatchArchivistJob do with its outcome.
RunJobgroupArchivist(failAt) ==
    /\ Running
    /\ nextSeq <= MaxJobs
    /\ LET r == sub
           tenant == "t1"
           admitted == AllValid(r.jobs) /\ ThrottleAdmits(jobgroups, tenant, clock)
           lines == BuildJobgroupJsonlFile(r.jobs)
           batchMade == admitted /\ failAt \in {"persist", "none"}
           rowMade == admitted /\ failAt = "none"
           calls == r.calls + 1
           state == IF rowMade THEN "done"
                    ELSE IF calls > BATCH_MAX_RETRIES THEN "failed" ELSE "running"
       IN  /\ batches' = IF batchMade THEN Append(batches, RemoteBatch("validating", <<>>)) ELSE batches
           /\ jobgroups' = IF rowMade
                           THEN CreateJobgroup(jobgroups, tenant, "validating", Len(batches) + 1, clock)
                           ELSE jobgroups
           /\ sub' = Submission(r.jobs, calls, state,
                                IF admitted /\ failAt # "upload" THEN lines ELSE r.lines,
                                IF batchMade THEN r.batchIds \cup {Len(batches) + 1} ELSE r.batchIds,
                                IF rowMade THEN r.rowIds \cup {Len(jobgroups) + 1} ELSE r.rowIds,
                                IF rowMade THEN Len(lines) ELSE r.request_count)
           /\ IF state = "failed"
              THEN /\ queues' = SendToDLQ(queues, nextSeq, JobGroupWrapper)
                   /\ nextSeq' = nextSeq + 1
              ELSE UNCHANGED <<queues, nextSeq>>
           /\ spc' = IF rowMade THEN [spc EXCEPT !["worker"] = "poll"] ELSE spc
    /\ UNCHANGED <<apc, lastTake, failedJobs, garbageTaken, results, aiDesc, lock, ppc, pl, sl, faults,
                   termByPoll, lateTouch, runs, reply, routed, svars, tvars, xvars, pipeRuns, legacy, mig>>

(***************************************************************************)
(* scripts/migrate-queues.js: the one-shot migration of the legacy lists   *)
(***************************************************************************)
\* Object.values(LEGACY), in the order the script drains them.
LEGACY == <<"jobs:instant", "jobs:standard", "jobs:jobgroup">>

LegacyKeys == {LEGACY[i] : i \in 1..3}

\* Documents found on the legacy lists: a job of each worker by job_type, a
\* job recognisable by its shape only, a job with neither, and an element
\* that is not JSON.
LegacyDocs ==
    { Stringify(Job("machinist", "standard", "uuid", "uuid", "uuid", "viewing")),
      Stringify(Job("archivist", "standard", "uuid", "uuid", "uuid", "none")),
      Stringify(Job("none", "none", "uuid", "uuid", "uuid", "viewing")),
      Stringify(Job("none", "none", "uuid", "uuid", "uuid", "none")),
      Garbage }

\* detectWorker: job_type containing archivist, then machinist; then the
\* shape (processing_type, else file_purpose); a job on the legacy jobgroup
\* list is the archivist's by default; otherwise null.
DetectWorker(job, legacyKey) ==
    IF job.job_type \in {"archivist", "archivist.jobgroup-result"} THEN "archivist"
    ELSE IF job.job_type = "machinist" THEN "machinist"
    ELSE IF job.processing_type # "none" THEN "archivist"
    ELSE IF job.file_purpose # "none" THEN "machinist"
    ELSE IF legacyKey = "jobs:jobgroup" THEN "archivist"
    ELSE "null"

\* detectPriority
DetectPriority(legacyKey) ==
    IF legacyKey = "jobs:instant" THEN "instant"
    ELSE IF legacyKey = "jobs:standard" THEN "standard"
    ELSE "jobgroup"

\* TARGET[worker][prio], the legacy jobgroup priority of a machinist job
\* mapped to batch.
TargetKey(worker, prio) ==
    IF worker = "archivist" THEN "jobs:archivist:" \o prio
    ELSE "jobs:machinist:" \o (IF prio = "jobgroup" THEN "batch" ELSE prio)

\* pc: "idle" before the script runs, "drain" inside the loops, "done" after
\* process.exit(0), "failed" after process.exit(1); at: the index in LEGACY
\* of the list being drained; was: the tokens of the elements the legacy
\* lists held when the script started.
Migration(pc, at, was) == [pc |-> pc, at |-> at, was |-> was]

NoMigration == Migration("idle", 1, {})

\* Before the migration: an old producer leaves an element on a legacy list.
LegacyProducer(key, doc) ==
    /\ mig.pc = "idle"
    /\ nextSeq <= MaxJobs
    /\ legacy' = [legacy EXCEPT ![key] = Append(@, Element(nextSeq, doc))]
    /\ nextSeq' = nextSeq + 1
    /\ UNCHANGED <<queues, apc, lastTake, failedJobs, garbageTaken, jvars, reply, routed, svars, tvars, xvars,
                   pipeRuns, sub, mig>>

\* The script starts: getRedisClient, moved = 0, skipped = 0.
MigrationStarts ==
    /\ mig.pc = "idle"
    /\ mig' = Migration("drain", 1, UNION {{legacy[k][i].seq : i \in DOMAIN legacy[k]} : k \in LegacyKeys})
    /\ UNCHANGED <<qvars, jvars, reply, routed, svars, tvars, xvars, pipeRuns, sub, legacy>>

\* One evaluation of the inner loop: lPop of the legacy list; null ends the
\* list's loop (and, after the last list, the script); an element that does
\* not parse or has no worker is counted as skipped and dropped; any other
\* is rPush-ed, re-serialised, onto its target list.  An rPush that rejects
\* ends the script with exit code 1.
MigrateNext(pushOk) ==
    /\ mig.pc = "drain"
    /\ LET legacyKey == LEGACY[mig.at]
       IN  IF legacy[legacyKey] = <<>>
           THEN /\ pushOk
                /\ mig' = IF mig.at = 3 THEN [mig EXCEPT !.pc = "done"] ELSE [mig EXCEPT !.at = @ + 1]
                /\ UNCHANGED <<legacy, queues>>
           ELSE LET raw == Head(legacy[legacyKey])
                    worker == IF ParseOk(raw) THEN DetectWorker(ParseJob(raw), legacyKey) ELSE "null"
                    targetKey == TargetKey(worker, DetectPriority(legacyKey))
                IN  /\ legacy' = [legacy EXCEPT ![legacyKey] = Tail(@)]
                    /\ IF worker = "null"
                       THEN pushOk /\ UNCHANGED <<queues, mig>>
                       ELSE IF pushOk
                       THEN /\ queues' = RPush(queues, targetKey, Element(raw.seq, Stringify(ParseJob(raw))))
                            /\ UNCHANGED mig
                       ELSE /\ mig' = [mig EXCEPT !.pc = "failed"]
                            /\ UNCHANGED queues
    /\ UNCHANGED <<nextSeq, apc, lastTake, failedJobs, garbageTaken, jvars, reply, routed, svars, tvars, xvars,
                   pipeRuns, sub>>

(***************************************************************************)
(* Specification of the queue layer and the two worker loops               *)
(***************************************************************************)
QueueInit ==
    /\ queues = [k \in QueueKeys |-> <<>>]
    /\ nextSeq = 1
    /\ apc = "instant"
    /\ lastTake = [w \in {"machinist", "archivist"} |-> NoObservation]
    /\ failedJobs = {}
    /\ garbageTaken = {}
    /\ reply = NoReply
    /\ routed = NoRoute
    /\ assetVersions = <<>>
    /\ dlqCall = NoDlqCall
    /\ lastArchive = NoArchive
    /\ proc = [w \in {"machinist", "archivist"} |-> AtTop]
    /\ takes = <<>>
    /\ interrupted = {}
    /\ clock = 0
    /\ trip = NoTrip
    /\ retry = RetryIdle
    /\ admin = NoAdmin
    /\ b2 = NoPool
    /\ lockKey = NoKey
    /\ lastRun = NoPipelineRun
    /\ pipeRuns = <<>>
    /\ sub = NoSubmission
    /\ legacy = [k \in LegacyKeys |-> <<>>]
    /\ mig = NoMigration

Init == QueueInit /\ JobgroupInit

Next ==
    \/ \E job \in JobInputs : PostEnqueue(job)
    \/ \E key \in JobQueueKeys, job \in JobInputs : HelperEnqueue(key, job)
    \/ \E key \in JobQueueKeys : ForeignPush(key)
    \/ \E ok \in BOOLEAN : MachinistIteration(ok)
    \/ \E ok \in BOOLEAN : ArchivistStage(ok)

Spec == Init /\ [][Next]_vars

(***************************************************************************)
(* Claims about the queue layer and the worker loops                       *)
(***************************************************************************)
Workers == {"machinist", "archivist"}

\* C1: within one worker dequeue order is strict priority: whenever a worker
\* takes a job from a queue, every queue of higher priority of that worker is
\* empty at that moment (machinist blocking loop and archivist polling loop).
C1_StrictPriority == \A w \in Workers : lastTake[w].higherEmpty

\* The machinist half of C1, which the blocking pop does guarantee.
MachinistStrictPriority == lastTake["machinist"].higherEmpty

\* C2: every job queue is FIFO: a job handed to a worker is older than every
\* job still waiting on the queue it came from, whichever producer enqueued
\* them and whichever loop consumes them.
C2_FifoPerQueue == \A w \in Workers : lastTake[w].oldest

\* C3: every dequeued job whose handling failed has a dead-letter entry on
\* some dead-letter list by the time the worker moves on.
C3_FailedJobHasDlqEntry ==
    \A s \in failedJobs :
        \E k \in DlqKeys : \E n \in 1..Len(queues[k]) : queues[k][n].seq = s

\* C4: a popped element that is not valid JSON is afterwards present, raw, on
\* the dead-letter list dlq:<worker> of the worker that popped it.
C4_GarbageOnWorkerDlq ==
    \A g \in garbageTaken :
        \E n \in 1..Len(queues["dlq:" \o g.worker]) :
            /\ queues["dlq:" \o g.worker][n].seq = g.seq
            /\ ~queues["dlq:" \o g.worker][n].json

(***************************************************************************)
(* Specification of the jobgroup subsystem: submissions from the worker    *)
(* and the CLI, the periodic and inline poll cycles, the operator's        *)
(* cancel, store errors on the lock, and the lock's expiry                 *)
(***************************************************************************)
\* Output files the remote service answers with in this specification.
JobgroupFiles == {<<CustomId("a1")>>}

JobgroupSpecInit == QueueInit /\ JobgroupInit

JobgroupNext ==
    \/ \E s \in Submitters, t \in Tenants : ThrottleCheck(s, t)
    \/ \E s \in Submitters : CreateAndPersist(s)
    \/ \E g \in 1..MaxJobgroups : CancelJobgroupCLI(g)
    \/ \E b \in 1..MaxJobgroups, o \in RemoteOutcomes, f \in JobgroupFiles \cup {<<>>} :
           RemoteFinishes(b, o, f)
    \/ \E p \in Pollers, e \in BOOLEAN : BeginCycle(p, e)
    \/ \E p \in Pollers : RetrieveBatch(p)
    \/ \E p \in Pollers : WriteBatchStatus(p, FALSE)
    \/ \E p \in Pollers : CountShortCircuit(p, FALSE)
    \/ \E p \in Pollers, i \in 1..MaxLines : CheckOutputObject(p, i)
    \/ \E p \in Pollers, i \in 1..MaxLines : WriteOutputObject(p, i)
    \/ \E p \in Pollers : FinishJobgroup(p, FALSE)
    \/ \E p \in Pollers : ReleasePollerLock(p)
    \/ LockExpires

SpecJobgroup == JobgroupSpecInit /\ [][JobgroupNext]_vars

(***************************************************************************)
(* Claims about the jobgroup subsystem                                     *)
(***************************************************************************)
\* C5: once a jobgroup's status is completed, failed, expired or cancelled, no
\* later write (by the poller, the result processor or the operator's cancel)
\* changes that status.
C5_TerminalIsSticky ==
    [][\A g \in 1..Len(jobgroups) :
          jobgroups[g].status \in TerminalStatuses => jobgroups'[g].status = jobgroups[g].status]_vars

\* C6: at any time at most one poll cycle, periodic or inline, in whatever
\* process, is executing its work section.
C6_OnePollCycleAtATime == Cardinality({p \in Pollers : InWorkSection(p)}) <= 1

\* C7: every tenant has at most one jobgroup whose status is created,
\* validating or in_progress, also when submissions run concurrently.
C7_OneActivePerTenant ==
    \A t \in Tenants :
        Cardinality({g \in 1..Len(jobgroups) :
                        jobgroups[g].tenant_id = t /\ jobgroups[g].status \in ActiveStatuses}) <= 1

\* C10: after a poll cycle has written a terminal status to a jobgroup, no
\* poll cycle that begins later queries that jobgroup's remote status or
\* writes to jobgroups, jobgroup_results or ai_description for it.
C10_NoLatePollWork == lateTouch = {}

(***************************************************************************)
(* Specification of result processing.  It starts where the archivist      *)
(* worker has just persisted a jobgroup and is about to poll inline; the   *)
(* periodic timer polls too, the remote service answers with any output    *)
(* file of up to MaxLines lines, the store may fail the lock's SET, and it *)
(* may fail a jobgroup status update up to MaxFaults times                 *)
(***************************************************************************)
ResultPollers == {"timer", "worker"}

ResultsInit ==
    /\ QueueInit
    /\ jobgroups = CreateJobgroup(<<>>, "t1", "validating", 1, 0)
    /\ batches = <<RemoteBatch("validating", <<>>)>>
    /\ results = <<>>
    /\ aiDesc = {}
    /\ lock = FALSE
    /\ ppc = [p \in Pollers |-> "idle"]
    /\ pl = [p \in Pollers |-> NoLocals]
    /\ spc = [s \in Submitters |-> IF s = "worker" THEN "poll" ELSE "idle"]
    /\ sl = [s \in Submitters |-> NoSubmit]
    /\ faults = 0
    /\ termByPoll = {}
    /\ lateTouch = {}
    /\ runs = [g \in 1..MaxJobgroups |-> 0]

ResultsNext ==
    \/ \E o \in RemoteOutcomes, f \in OutputFiles(MaxLines) \cup {<<>>} : RemoteFinishes(1, o, f)
    \/ \E p \in ResultPollers, e \in BOOLEAN : BeginCycle(p, e)
    \/ \E p \in ResultPollers : RetrieveBatch(p)
    \/ \E p \in ResultPollers, e \in BOOLEAN : WriteBatchStatus(p, e)
    \/ \E p \in ResultPollers, e \in BOOLEAN : CountShortCircuit(p, e)
    \/ \E p \in ResultPollers, i \in 1..MaxLines : CheckOutputObject(p, i)
    \/ \E p \in ResultPollers, i \in 1..MaxLines : WriteOutputObject(p, i)
    \/ \E p \in ResultPollers, e \in BOOLEAN : FinishJobgroup(p, e)
    \/ \E p \in ResultPollers : ReleasePollerLock(p)

SpecResults == ResultsInit /\ [][ResultsNext]_vars

(***************************************************************************)
(* Claims about result processing                                          *)
(***************************************************************************)
OutputFileOf(g) == batches[jobgroups[g].openai_batch_id].file

RowsOf(g, assetId) ==
    {i \in 1..Len(results) : results[i].jobgroup_id = g /\ results[i].asset_id = assetId}

UniqueCustomIds(file) == {file[i] : i \in 1..Len(file)}

WellFormedAssetIds(file) == {AssetIdOf(file[i]) : i \in 1..Len(file)} \ {"null"}

C9_CompletedOnlyWithoutFailures ==
    \A g \in 1..Len(jobgroups) :
        jobgroups[g].status = "completed" =>
            ~\E i \in 1..Len(results) : results[i].jobgroup_id = g /\ results[i].status = "failed"

(***************************************************************************)
(* Specification of the control plane's enqueue route                      *)
(***************************************************************************)
\* Request bodies: accepted jobs of each worker, machinist jobs asking for
\* the jobgroup lane under either name, and jobs that fail validation.
EnqueueBodies ==
    { Body(Job("machinist", "instant",  "uuid", "uuid", "uuid", "viewing"), "jpg"),
      Body(Job("machinist", "instant",  "uuid", "uuid", "uuid", "viewing"), "heic"),
      Body(Job("machinist", "standard", "uuid", "bad",  "uuid", "viewing"), ".JPG"),
      Body(Job("machinist", "jobgroup", "uuid", "uuid", "uuid", "viewing"), "jpg"),
      Body(Job("machinist", "batch",    "uuid", "uuid", "uuid", "viewing"), "jpg"),
      Body(Job("none",      "jobgroup", "uuid", "uuid", "uuid", "viewing"), "jpg"),
      Body(Job("archivist", "batch",    "uuid", "uuid", "uuid", "none"), "none"),
      Body(Job("archivist", "jobgroup", "uuid", "uuid", "uuid", "none"), "none"),
      Body(Job("archivist", "instant",  "uuid", "bad",  "uuid", "none"), "none"),
      Body(Job("archivist", "standard", "none", "uuid", "uuid", "none"), "none"),
      Body(Job("ai_analysis", "instant", "uuid", "uuid", "uuid", "none"), "none") }

EnqueueNext ==
    \/ \E body \in EnqueueBodies, pushOk \in BOOLEAN : EndpointsEnqueue(body, pushOk)
    \/ \E body \in EnqueueBodies, pushOk \in BOOLEAN : HealthEnqueue(body, pushOk)

SpecEnqueue == Init /\ [][EnqueueNext]_vars

\* The body names the machinist worker (by value or by default) and asks
\* for the jobgroup lane under either of its names.
MachinistJobgroupRequest(body) ==
    /\ DefaultJobType(body).job_type = "machinist"
    /\ body.processing_type \in {"jobgroup", "batch"}

\* C11: a POST /enqueue whose body is a machinist job with processing_type
\* jobgroup or batch is answered 400 unsupported_priority, and no list of
\* the store has grown.
C11_MachinistJobgroupRejected ==
    (reply.server # "none" /\ MachinistJobgroupRequest(reply.body))
        => (reply.code = 400 /\ reply.error = "unsupported_priority" /\ ~reply.wrote)

\* The validation a body of its job type has to pass: the schema validator
\* of the worker, and for machinist jobs the extension allow-list.
PassesValidation(body) ==
    IF DefaultJobType(body).job_type = "machinist"
    THEN SchemaValidateMachinistJob(DefaultJobType(body)) /\ SanitizeExt(body.input_extension) # ""
    ELSE IF body.job_type = "archivist" THEN ValidateArchivistJob(body)
    ELSE FALSE

\* C12: a POST /enqueue whose body fails validation is answered 400 and no
\* list of the store has grown.
C12_InvalidJobRejected ==
    (reply.server # "none" /\ ~PassesValidation(reply.body))
        => (reply.code = 400 /\ ~reply.wrote)

(***************************************************************************)
(* Specification of the priority router as a function of the job           *)
(***************************************************************************)
\* Jobs handed to the router: every job_type and processing_type the
\* router distinguishes, with and without the base fields.
RouterInputs ==
    { Job(jt, pt, tenant, asset, "uuid", "none") :
        jt \in {"none", "machinist", "archivist", "ai_analysis"},
        pt \in {"none", "instant", "individual", "standard", "jobgroup", "batch", "bulk"},
        tenant \in {"none", "uuid"},
        asset \in {"uuid", "bad"} }

RouterNext == \E job \in RouterInputs : Route(job)

SpecRouter == Init /\ [][RouterNext]_vars

\* The router was called and returned a queue key.
RouterReturned == routed.key \notin {"none", "error"}

\* The five job queues of the queue contract.
ContractQueues ==
    {"jobs:machinist:instant", "jobs:machinist:standard",
     "jobs:archivist:instant", "jobs:archivist:standard", "jobs:archivist:jobgroup"}

\* C13: whenever the router returns a queue key, the key is one of the
\* five namespaced job queues of the contract.
C13_RouterReturnsContractQueue == RouterReturned => routed.key \in ContractQueues

\* C14: a call of the router with a machinist job whose derived priority
\* is the jobgroup priority ends in an error, not in a queue key.
C14_RouterRejectsMachinistJobgroup ==
    (routed.key # "none" /\ routed.job.job_type = "machinist"
        /\ GetJobPriority(routed.job) = "batch")
        => routed.key = "error"

\* C15: the router treats processing_type batch as it treats jobgroup: a
\* job with processing_type batch gets the answer the same job with
\* processing_type jobgroup gets, and for an accepted archivist job that
\* answer is jobs:archivist:jobgroup.
C15_BatchRoutedAsJobgroup ==
    (routed.key # "none" /\ routed.job.processing_type = "batch")
        => /\ routed.key = ResolveQueueForJob([routed.job EXCEPT !.processing_type = "jobgroup"])
           /\ (routed.job.job_type = "archivist" /\ RouterReturned
                  => routed.key = ARCHIVIST_QUEUE_JOBGROUP)

(***************************************************************************)
(* Specification of the machinist's version records, the archive step and  *)
(* the dead-letter helper                                                  *)
(***************************************************************************)
VersionsNext ==
    \/ \E v \in VersionCalls, uploadOk \in BOOLEAN, selectOk \in BOOLEAN, writeOk \in BOOLEAN :
          UploadAndRecord(v, uploadOk, selectOk, writeOk)
    \/ \E lookupOk \in BOOLEAN, uploadOk \in BOOLEAN, rpcOk \in BOOLEAN, fault \in {"none", "connect"} :
          ArchiveAssetToGlacier(lookupOk, uploadOk, rpcOk, fault)

SpecVersions == Init /\ [][VersionsNext]_vars

(***************************************************************************)
(* Specification of the dead-letter helper as a call                       *)
(***************************************************************************)
\* Calls of sendToDLQ, between runs of the machinist job that record its
\* versions.
DlqNext ==
    \/ \E job \in DlqJobs, fault \in DlqFaults : SendToDLQCall(job, fault)
    \/ \E v \in VersionCalls : UploadAndRecord(v, TRUE, TRUE, TRUE)

SpecDlq == Init /\ [][DlqNext]_vars

\* C16: no call of sendToDLQ ends by throwing or rejecting, whichever of
\* its parts fails.
C16_SendToDlqNeverThrows == dlqCall.outcome # "rejected"

\* String(jobType).split('.')[0]: the worker a job type belongs to.
WorkerPrefix(jobType) ==
    IF jobType = "archivist.jobgroup-result" THEN "archivist" ELSE jobType

\* The lists sendToDLQ writes to: every dead-letter list but the machinist
\* loop's own failed list.
HelperDlqKeys == DlqKeys \ {DLQ_QUEUE}

\* C17: every entry written by sendToDLQ lies on dlq:machinist or on
\* dlq:archivist, and on the one named by the worker prefix of the entry's
\* job_type.
C17_DlqListByWorkerPrefix ==
    \A k \in HelperDlqKeys : \A i \in 1..Len(queues[k]) :
        /\ k \in {"dlq:machinist", "dlq:archivist"}
        /\ k = "dlq:" \o WorkerPrefix(queues[k][i].job.job_type)

\* An element that is a JSON document carrying identifiers only: tenant,
\* asset, batch and job type, none of the job's other fields.
IdentifiersOnly(el) ==
    /\ ParseOk(el)
    /\ ParseJob(el) = Job(ParseJob(el).job_type, "none", ParseJob(el).tenant_id,
                          ParseJob(el).asset_id, ParseJob(el).batch_id, "none")

\* C18: every element on a dead-letter list carries identifiers only, never
\* the job payload it was dequeued with.
C18_DlqEntriesIdentifiersOnly ==
    \A k \in DlqKeys : \A i \in 1..Len(queues[k]) : IdentifiersOnly(queues[k][i])

SameVersionTuple(r1, r2) ==
    /\ r1.asset_id = r2.asset_id
    /\ r1.purpose = r2.purpose
    /\ r1.variant = r2.variant
    /\ r1.type = r2.type

\* C19: whatever runs of the machinist job have taken place, asset_versions
\* holds one row, not more, for each (asset_id, purpose, variant, type)
\* tuple the job has recorded.
C19_OneRowPerVersionTuple ==
    \A i \in DOMAIN assetVersions : \A j \in DOMAIN assetVersions :
        SameVersionTuple(assetVersions[i], assetVersions[j]) => i = j

LoopJobs ==
    { Job("machinist", "instant",  "uuid", "uuid", "uuid", "viewing"),
      Job("machinist", "standard", "uuid", "uuid", "uuid", "bogus"),
      Job("archivist", "instant",  "uuid", "uuid", "uuid", "none"),
      Job("archivist", "standard", "uuid", "bad",  "uuid", "none") }

LoopSteps ==
    \/ \E job \in LoopJobs : PostEnqueue(job)
    \/ MachinistDequeue
    \/ \E pipelineOk \in BOOLEAN, storeOk \in BOOLEAN : MachinistHandled(pipelineOk, storeOk)
    \/ ArchivistDequeue
    \/ \E pipelineOk \in BOOLEAN : ArchivistHandled(pipelineOk)

ProcessNext ==
    \/ LoopSteps
    \/ \E w \in {"machinist", "archivist"} : OsSignal(w)

SpecProcess == Init /\ [][ProcessNext]_vars

\* C21: no job in flight is cut short by a shutdown request: the loop that
\* was signalled lets its handler finish and leaves at the top of the next
\* iteration.
C21_ShutdownLetsJobFinish == interrupted = {}

\* The loops keep running: a loop that can take a step eventually takes
\* it, and a handler that was started eventually ends.  No signal arrives.
LoopFairness ==
    /\ WF_vars(MachinistDequeue)
    /\ WF_vars(\E pipelineOk \in BOOLEAN, storeOk \in BOOLEAN : MachinistHandled(pipelineOk, storeOk))
    /\ WF_vars(ArchivistDequeue)
    /\ WF_vars(\E pipelineOk \in BOOLEAN : ArchivistHandled(pipelineOk))

SpecLoopLive == Init /\ [][LoopSteps]_vars /\ LoopFairness

NothingQueued == \A k \in JobQueueKeys : queues[k] = <<>>

\* C28: once a handler has failed, the loops go on: every job that is
\* still queued for a worker is eventually dequeued.
C28_LoopSurvivesHandlerError == (failedJobs # {}) ~> NothingQueued

\* A job was handed to a handler after an earlier job's handler had failed.
C28_TakenAfterFailure ==
    \E i \in DOMAIN takes : \E j \in DOMAIN takes : i < j /\ takes[i] \in failedJobs

\* The handler that took the job returned without throwing.
ProcessedToCompletion(s) ==
    /\ \E i \in DOMAIN takes : takes[i] = s
    /\ s \notin failedJobs
    /\ \A w \in DOMAIN proc : ~(proc[w].pc = "handling" /\ proc[w].el.seq = s)

OnDeadLetterList(s) == \E k \in DlqKeys : \E i \in DOMAIN queues[k] : queues[k][i].seq = s

\* C36: every job that POST /enqueue accepted is, with the worker loops
\* running on, eventually processed to completion by its handler or
\* recorded on a dead-letter list.
C36_AcceptedJobCompletedOrDeadLettered ==
    \A s \in 1..MaxJobs : (s < nextSeq) ~> (ProcessedToCompletion(s) \/ OnDeadLetterList(s))

(***************************************************************************)
(* Specification of the submission throttle: both submitting processes,    *)
(* the operator's cancel, the submitters' inline poll cycles up to their   *)
(* snapshot, and the passage of time                                       *)
(***************************************************************************)
ThrottleNext ==
    \/ \E s \in Submitters, t \in Tenants : ThrottleCheckUpTo(s, t, MaxRecent)
    \/ \E s \in Submitters : CreateAndPersist(s)
    \/ \E g \in 1..MaxRecent : CancelJobgroupCLI(g)
    \/ \E p \in Submitters : BeginCycle(p, FALSE)
    \/ \E p \in Submitters : ReleasePollerLock(p)
    \/ Tick

SpecThrottle == JobgroupSpecInit /\ [][ThrottleNext]_vars

\* The tenant's jobgroups created in the 24 hours that end at time now.
CreatedInDayBefore(tenant, now) ==
    {g \in 1..Len(jobgroups) : /\ jobgroups[g].tenant_id = tenant
                               /\ jobgroups[g].created_at <= now
                               /\ now - jobgroups[g].created_at < DayTicks}

TripJobs ==
    { Job("archivist", "instant", "uuid", "uuid", "uuid", "none"),
      NoJob,
      Job("archivist", "instant", "none", "uuid", "uuid", "none") }

TripKeys == {ARCHIVIST_QUEUE_INSTANT, ARCHIVIST_QUEUE_STANDARD, MACHINIST_QUEUE_INSTANT}

TripNext ==
    \/ \E key \in TripKeys, job \in TripJobs : EnqueueCall(key, job)
    \/ \E key \in TripKeys, job \in TripJobs : PushJobCall(key, job)
    \/ \E key \in TripKeys : DequeueCall(key)

SpecTrip == Init /\ [][TripNext]_vars

\* A push onto an empty list has been followed by a pop of the same list.
TripDone == trip.stage = "popped" /\ trip.wasEmpty

RetryNext ==
    \/ \E m \in (0 - 1)..MaxRetriesArg, fn \in RetryFns, d \in RetryDeadlines : WithRetryCalled(m, fn, d)
    \/ WithRetryIteration

SpecRetry == Init /\ [][RetryNext]_vars

\* The k-th invocation has happened and is the first that resolved.
FirstSuccessAt(k) ==
    /\ k <= retry.calls
    /\ retry.fn[k]
    /\ \A i \in 1..(k - 1) : ~retry.fn[i]

\* C24: withRetry invokes fn at most maxRetries + 1 times, and if the k-th
\* invocation is the first that succeeds it returns that invocation's value
\* after exactly k invocations.
C24_RetryBoundedAndFirstSuccessReturned ==
    /\ retry.calls <= retry.maxRetries + 1
    /\ \A k \in 1..MaxCalls :
           FirstSuccessAt(k) => retry.pc = "returned" /\ retry.value = k /\ retry.calls = k

C24_ReturnedAfterRetries ==
    retry.pc = "returned" /\ retry.calls = retry.maxRetries + 1 /\ retry.calls > 1

(***************************************************************************)
(* Specification of the DLQ listing: entries arrive, an operator lists     *)
(***************************************************************************)
ListOffsets == {Absent, Digits(1)}

ListLimits == {Absent, Digits(0), Digits(1000), Text}

DlqListNext ==
    \/ DlqArrival(MaxDlqLen)
    \/ \E o \in ListOffsets, l \in ListLimits : GetDlq(o, l)

SpecDlqList == Init /\ [][DlqListNext]_vars

\* C25: a GET /queues/dlq response never contains more than 200 items,
\* whatever offset and limit the request supplies.
C25_DlqPageAtMost200 == admin.op = "list" => Len(admin.items) <= DLQ_LIMIT_MAX

(***************************************************************************)
(* Specification of the DLQ requeue: entries arrive, an operator requeues  *)
(***************************************************************************)
RequeueDsts == {"none", MACHINIST_QUEUE_INSTANT, MACHINIST_QUEUE_STANDARD}

RequeueCounts == {Absent, Number(0), Number(2), Digits(0), Number(2000), Text}

RequeueNext ==
    \/ DlqArrival(MaxJobs)
    \/ \E d \in RequeueDsts, c \in RequeueCounts : PostRequeue(d, c)

SpecRequeue == Init /\ [][RequeueNext]_vars

\* The last m entries of a list, rightmost first.
PoppedFromRight(list, m) == [i \in 1..m |-> list[Len(list) - i + 1]]

\* C26: POST /queues/dlq/requeue moves at most min(count, 1000) entries, each
\* taken from the right end of srcKey and appended to the right end of
\* dstKey, and stops early when srcKey becomes empty.
C26_RequeueMovesAtMostCount ==
    [][admin' # admin /\ admin'.op = "requeue" /\ admin'.status = 200
          /\ admin'.p1.kind \in {"number", "digits"} =>
        LET most == IF admin'.p1.val < REQUEUE_COUNT_MAX THEN admin'.p1.val ELSE REQUEUE_COUNT_MAX
            m == admin'.moved
            before == queues[DLQ_DEFAULT_KEY]
        IN  /\ m <= most
            /\ m <= Len(before)
            /\ queues'[DLQ_DEFAULT_KEY] = SubSeq(before, 1, Len(before) - m)
            /\ queues'[admin'.dst] = queues[admin'.dst] \o PoppedFromRight(before, m)
            /\ m < most => queues'[DLQ_DEFAULT_KEY] = <<>>]_vars

(***************************************************************************)
(* Specification of the blob-store concurrency pool                        *)
(***************************************************************************)
PoolNext ==
    \/ \E env \in B2Envs : B2ModuleLoaded(env)
    \/ WithB2Limit
    \/ \E t \in 1..MaxTasks : B2TaskBegins(t)
    \/ \E t \in 1..MaxTasks : B2TaskSettles(t)

SpecPool == Init /\ [][PoolNext]_vars

LockNext ==
    \/ \E p \in Pollers, e \in BOOLEAN : AcquireInTime(p, e)
    \/ \E p \in Pollers : RefreshInTime(p)
    \/ \E p \in Pollers : ReleaseInTime(p)
    \/ \E p \in Pollers : PollerCrashes(p)
    \/ LockTick

SpecLock == Init /\ [][LockNext]_vars

\* C29: if the poller holding the lock crashes without releasing it, another
\* poller is able to acquire the lock no later than the lock TTL after the
\* last acquisition or refresh.
C29_CrashedHolderLockExpires ==
    \A p \in Pollers :
        ppc[p] = "crashed" /\ lockKey.setBy = p /\ lockKey.age >= LockTtlTicks
            => AcquirePollerLock(lock, FALSE)

C29_CrashedHolderKeyGone ==
    \E p \in Pollers :
        /\ ppc[p] = "crashed"
        /\ lockKey.setBy = p
        /\ lockKey.age >= LockTtlTicks
        /\ ~lock

\* The lock key exists and was set by the cycle that poller q is still in.
HeldByCycleOf(q) == lock /\ lockKey.setBy = q /\ ppc[q] = "chunk"

\* C39: the release at the end of a poll cycle never deletes the lock key
\* while the key is held by the cycle of a different poller.
C39_ReleaseOnlyOwnLock ==
    [][\A p \in Pollers :
          (ppc[p] = "chunk" /\ ppc'[p] = "idle")
              => ~(\E q \in Pollers \ {p} : HeldByCycleOf(q) /\ ~lock')]_vars

(***************************************************************************)
(* Specification of the pipeline's preservation path                       *)
(***************************************************************************)
PipelineNext ==
    \/ \E exists \in BOOLEAN, origOk \in BOOLEAN, lookupOk \in BOOLEAN, uploadOk \in BOOLEAN, rpcOk \in BOOLEAN :
           RunPreservationPipeline(exists, origOk, lookupOk, uploadOk, rpcOk)
    \/ \E v \in VersionCalls, uploadOk \in BOOLEAN, selectOk \in BOOLEAN :
           UploadAndRecord(v, uploadOk, selectOk, TRUE)

SpecPipeline == Init /\ [][PipelineNext]_vars

\* C30: every machinist job with file_purpose preservation that completes
\* successfully has, on completion, a preservation archive bundle uploaded to
\* the archive bucket and a preservation version row recording that bundle.
C30_CompletedPreservationJobArchived ==
    lastRun.status = "complete" => lastRun.bundle /\ lastRun.bundleRow

\* C34: a run of the pipeline whose preservation archive step fails leaves
\* exactly one new dead-letter entry: on dlq:machinist, with job_type
\* machinist and the job's identifiers, and no other list changes.
C34_OneDlqEntryPerArchiveFailure ==
    [][queues' # queues =>
          /\ Len(queues'["dlq:machinist"]) = Len(queues["dlq:machinist"]) + 1
          /\ SubSeq(queues'["dlq:machinist"], 1, Len(queues["dlq:machinist"])) = queues["dlq:machinist"]
          /\ LET el == RHead(queues', "dlq:machinist")
             IN  ParseOk(el) /\ ParseJob(el).job_type = "machinist"
                             /\ ParseJob(el).asset_id = PreservationJob.asset_id
          /\ \A k \in QueueKeys \ {"dlq:machinist"} : queues'[k] = queues[k]]_vars

(***************************************************************************)
(* Specification of the pipeline's exit paths                              *)
(***************************************************************************)
WorkDirNext ==
    \/ \E path \in ExitPaths, rm \in FsRmOutcomes : RunMachinistPipeline(path, rm)
    \/ \E i \in 1..MaxPipelineRuns : BackgroundRemovalEnds(i)

SpecWorkDir == Init /\ [][WorkDirNext]_vars

\* C31: the per-job working directory created by the machinist pipeline no
\* longer exists when the pipeline returns or raises, on every exit path.
C31_WorkDirGoneAtExit == \A i \in DOMAIN pipeRuns : ~pipeRuns[i].dirAtExit

(***************************************************************************)
(* Specification of the submission request: the worker's job groups, each  *)
(* carried through its calls of runJobgroupArchivist, and the inline poll  *)
(* cycle that follows a persisted row                                      *)
(***************************************************************************)
SubmitNext ==
    \/ \E jobs \in JobLists : ProcessBatchArchivistJob(jobs)
    \/ \E failAt \in StepFailures : RunJobgroupArchivist(failAt)
    \/ BeginCycle("worker", FALSE)
    \/ RetrieveBatch("worker")
    \/ WriteBatchStatus("worker", FALSE)
    \/ ReleasePollerLock("worker")

SpecSubmit == Init /\ [][SubmitNext]_vars

Persisted(r) == r.rowIds # {}

\* The validated jobs the builder does not skip.
WithImage(jobs) == SelectSeq(jobs, LAMBDA j : j.image_url # "")

\* C32 as stated: the file submitted for a persisted jobgroup has one record
\* per validated job, in order, with custom_id asset-<asset_id>, and the
\* persisted request_count is the number of validated jobs.
C32_OneRecordPerValidatedJob ==
    Persisted(sub) =>
        /\ Len(sub.lines) = Len(sub.jobs)
        /\ \A i \in DOMAIN sub.jobs : sub.lines[i] = CustomId(sub.jobs[i].asset_id)
        /\ sub.request_count = Len(sub.jobs)

\* C32, amended: the file has one record, with custom_id asset-<asset_id>,
\* for each validated job that carries an image_url, in order; validated
\* jobs without one are skipped; request_count is the number of records.
C32_OneRecordPerJobWithImage ==
    Persisted(sub) =>
        LET kept == WithImage(sub.jobs)
        IN  /\ Len(sub.lines) = Len(kept)
            /\ \A i \in DOMAIN kept : sub.lines[i] = CustomId(kept[i].asset_id)
            /\ sub.request_count = Len(sub.lines)

\* A persisted jobgroup whose job group held a job with an image_url and a
\* validated job without one.
C32_PersistedWithSkippedJob ==
    /\ Persisted(sub)
    /\ sub.lines # <<>>
    /\ Len(sub.lines) < Len(sub.jobs)

\* C33: a submission request creates at most one remote batch, and a request
\* that ended with a persisted row created exactly one batch and exactly one
\* row, the row referring to that batch.
C33_OneBatchOneRowPerRequest ==
    /\ Cardinality(sub.batchIds) <= 1
    /\ sub.state = "done" =>
           /\ Cardinality(sub.batchIds) = 1
           /\ Cardinality(sub.rowIds) = 1
           /\ \A g \in sub.rowIds : jobgroups[g].openai_batch_id \in sub.batchIds

(***************************************************************************)
(* Specification of the migration: old producers fill the legacy lists,    *)
(* then the script runs once                                               *)
(***************************************************************************)
MigrationNext ==
    \/ \E key \in LegacyKeys, doc \in LegacyDocs : LegacyProducer(key, doc)
    \/ MigrationStarts
    \/ \E pushOk \in BOOLEAN : MigrateNext(pushOk)

SpecMigration == Init /\ [][MigrationNext]_vars

\* The namespaced job lists that hold an element with this token.
HeldBy(token) == {k \in JobQueueKeys : \E i \in DOMAIN queues[k] : queues[k][i].seq = token}

\* C35: after the migration has run to its end, the three legacy lists are
\* empty and every element they held is on exactly one namespaced job list.
C35_MigrationMovesEveryEntry ==
    mig.pc = "done" =>
        /\ \A k \in LegacyKeys : legacy[k] = <<>>
        /\ \A token \in mig.was : Cardinality(HeldBy(token)) = 1

(***************************************************************************)
(* Specification of the poll cycles running on: the operator submits and   *)
(* cancels, the remote service finishes batches, and the periodic poller   *)
(* and the submitter's inline cycle take every step they can               *)
(***************************************************************************)
LivePollers == {"timer", "cli"}

PollLiveNext ==
    \/ \E t \in Tenants : ThrottleCheck("cli", t)
    \/ CreateAndPersist("cli")
    \/ \E g \in 1..MaxJobgroups : CancelJobgroupCLI(g)
    \/ \E b \in 1..MaxJobgroups, o \in RemoteOutcomes, f \in JobgroupFiles \cup {<<>>} :
           RemoteFinishes(b, o, f)
    \/ \E p \in LivePollers : BeginCycle(p, FALSE)
    \/ \E p \in LivePollers : RetrieveBatch(p)
    \/ \E p \in LivePollers : WriteBatchStatus(p, FALSE)
    \/ \E p \in LivePollers : CountShortCircuit(p, FALSE)
    \/ \E p \in LivePollers, i \in 1..MaxLines : CheckOutputObject(p, i)
    \/ \E p \in LivePollers, i \in 1..MaxLines : WriteOutputObject(p, i)
    \/ \E p \in LivePollers : FinishJobgroup(p, FALSE)
    \/ \E p \in LivePollers : ReleasePollerLock(p)

\* Poll cycles keep running: the timer fires again after every cycle, and a
\* cycle that has begun takes each of its steps.
PollFairness ==
    \A p \in LivePollers :
        /\ WF_vars(BeginCycle(p, FALSE))
        /\ WF_vars(RetrieveBatch(p))
        /\ WF_vars(WriteBatchStatus(p, FALSE))
        /\ WF_vars(CountShortCircuit(p, FALSE))
        /\ WF_vars(\E i \in 1..MaxLines : CheckOutputObject(p, i))
        /\ WF_vars(\E i \in 1..MaxLines : WriteOutputObject(p, i))
        /\ WF_vars(FinishJobgroup(p, FALSE))
        /\ WF_vars(ReleasePollerLock(p))

SpecPollLive == Init /\ [][PollLiveNext]_vars /\ PollFairness

RemoteIsFinal(g) ==
    /\ g \in DOMAIN jobgroups
    /\ batches[jobgroups[g].openai_batch_id].status \in RemoteFinal

LocalIsTerminal(g) == g \in DOMAIN jobgroups /\ jobgroups[g].status \in TerminalStatuses

\* C37: every persisted jobgroup whose remote batch has reached a final
\* state eventually has a terminal local status, the poll cycles running on.
C37_FinalRemoteReachesTerminalLocal ==
    \A g \in 1..MaxJobgroups : RemoteIsFinal(g) ~> LocalIsTerminal(g)

(***************************************************************************)
(* Specification of the poll cycle under store errors: submissions of the  *)
(* worker and the operator, the remote service, and poll cycles in which   *)
(* an updateJobgroupStatus can reject                                      *)
(***************************************************************************)
PollErrNext ==
    \/ \E s \in Submitters, t \in Tenants : ThrottleCheck(s, t)
    \/ \E s \in Submitters : CreateAndPersist(s)
    \/ \E b \in 1..MaxJobgroups, o \in RemoteOutcomes, f \in JobgroupFiles \cup {<<>>} :
           RemoteFinishes(b, o, f)
    \/ \E p \in Pollers : BeginCycle(p, FALSE)
    \/ \E p \in Pollers : RetrieveBatch(p)
    \/ \E p \in Pollers, storeError \in BOOLEAN : WriteBatchStatus(p, storeError)
    \/ \E p \in Pollers : CountShortCircuit(p, FALSE)
    \/ \E p \in Pollers, i \in 1..MaxLines : CheckOutputObject(p, i)
    \/ \E p \in Pollers, i \in 1..MaxLines : WriteOutputObject(p, i)
    \/ \E p \in Pollers, storeError \in BOOLEAN : FinishJobgroup(p, storeError)
    \/ \E p \in Pollers : ReleasePollerLock(p)

SpecPollErr == Init /\ [][PollErrNext]_vars

\* C38: a poll cycle leaves its loop over the snapshot of active jobgroups
\* only from the last of them: whatever happens while one jobgroup is
\* polled or processed, the jobgroups after it are examined in the cycle.
C38_ErrorDoesNotEndCycle ==
    [][\A p \in Pollers :
          (ppc[p] \notin {"idle", "release"} /\ ppc'[p] = "release") => Len(pl[p].todo) <= 1]_vars

(***************************************************************************)
(* Specification of the DLQ requeue endpoint with a failing list store     *)
(***************************************************************************)
RequeueErrNext ==
    \/ DlqArrival(MaxJobs)
    \/ \E d \in RequeueDsts, c \in RequeueCounts : PostRequeue(d, c)
    \/ \E d \in RequeueDsts, c \in RequeueCounts, failAt \in 1..MaxJobs : PostRequeueRejected(d, c, failAt)

SpecRequeueErr == Init /\ [][RequeueErrNext]_vars

Occurrences(list, e) == Cardinality({i \in DOMAIN list : list[i] = e})

\* C40: a requeue request, answered 200 or 500, neither loses nor duplicates
\* an entry: every entry is on srcKey and dstKey together as often after the
\* request as before it.
C40_RequeueKeepsEntries ==
    [][Len(queues'[DLQ_DEFAULT_KEY]) < Len(queues[DLQ_DEFAULT_KEY]) =>
          \A e \in Range(queues[DLQ_DEFAULT_KEY]) \cup Range(queues[admin'.dst]) :
              Occurrences(queues'[DLQ_DEFAULT_KEY], e) + Occurrences(queues'[admin'.dst], e)
                  = Occurrences(queues[DLQ_DEFAULT_KEY], e) + Occurrences(queues[admin'.dst], e)]_vars
=============================================================================
